---- MODULE Spec2Model ----
(***************************************************************************)
(* ANS Registry core: the resolution chain (packages/core/src/resolve.ts)  *)
(* with its persistent store (storage.ts) and the resolution cache.        *)
(*                                                                         *)
(* Strings that the code inspects character by character (agent URIs) are  *)
(* sequences of one-character strings; opaque strings (endpoints, resolver *)
(* ids, capabilities) are TLA+ strings.  Time is Date.now() in             *)
(* milliseconds; an ISO timestamp is modelled by the millisecond value it  *)
(* was formatted from.                                                     *)
(***************************************************************************)
EXTENDS Integers, Sequences, FiniteSets, TLC

(***************************************************************************)
(* Bounds of the model                                                     *)
(***************************************************************************)
\* calls of resolveCached in one behaviour
MaxCalls == 2

\* configuration and management calls in one behaviour
MaxConfigOps == 2

\* uris in one call of resolveBatch
MaxBatch == 2

(***************************************************************************)
(* Characters and string helpers                                           *)
(***************************************************************************)
Letters ==
  {"a","b","c","d","e","f","g","h","i","j","k","l","m",
   "n","o","p","q","r","s","t","u","v","w","x","y","z",
   "A","B","C","D","E","F","G","H","I","J","K","L","M",
   "N","O","P","Q","R","S","T","U","V","W","X","Y","Z"}

Digits == {"0","1","2","3","4","5","6","7","8","9"}

AlphaNum == Letters \cup Digits

startsWith(s, p) == Len(s) >= Len(p) /\ SubSeq(s, 1, Len(p)) = p

endsWith(s, p) == Len(s) >= Len(p) /\ SubSeq(s, Len(s) - Len(p) + 1, Len(s)) = p

RECURSIVE split(_, _)
split(s, sep) ==
  IF \A i \in 1..Len(s) : s[i] # sep
    THEN <<s>>
    ELSE LET k == CHOOSE i \in 1..Len(s) :
                      s[i] = sep /\ \A j \in 1..(i - 1) : s[j] # sep
         IN  <<SubSeq(s, 1, k - 1)>> \o split(SubSeq(s, k + 1, Len(s)), sep)

RECURSIVE join(_, _)
join(parts, sep) ==
  IF Len(parts) = 0 THEN <<>>
  ELSE IF Len(parts) = 1 THEN parts[1]
  ELSE parts[1] \o <<sep>> \o join(Tail(parts), sep)

(***************************************************************************)
(* Agent URIs used as inputs                                               *)
(***************************************************************************)
AgentScheme == <<"a","g","e","n","t",":","/","/">>

Dot == <<".">>

L_company == <<"c","o","m","p","a","n","y">>

L_internal == <<"i","n","t","e","r","n","a","l">>

L_local == <<"l","o","c","a","l">>

URI_hello ==
  AgentScheme \o <<"h","e","l","l","o">> \o Dot \o <<"d","e","v">> \o Dot
              \o <<"p","b","o","l","d","u","c">>

URI_support ==
  AgentScheme \o <<"s","u","p","p","o","r","t">> \o Dot \o <<"d","e","m","o">> \o Dot
              \o <<"a","n","s","r","e","g","i","s","t","r","y">>

URI_test == AgentScheme \o <<"t","e","s","t">> \o Dot \o L_local

URI_hr ==
  AgentScheme \o <<"h","r">> \o Dot \o L_internal \o Dot \o L_company \o Dot \o L_local

URI_itsupport ==
  AgentScheme \o <<"i","t","-","s","u","p","p","o","r","t">> \o Dot \o L_internal
              \o Dot \o L_company \o Dot \o L_local

URI_admin ==
  AgentScheme \o <<"a","d","m","i","n">> \o Dot \o L_internal \o Dot \o L_company
              \o Dot \o L_local

URI_custom ==
  AgentScheme \o <<"c","u","s","t","o","m">> \o Dot \o L_internal \o Dot
              \o <<"t","e","s","t">> \o Dot \o L_local

URI_nonexistent ==
  AgentScheme \o <<"n","o","n","e","x","i","s","t","e","n","t">> \o Dot
              \o <<"n","o","w","h","e","r","e">> \o Dot \o <<"c","o","m">>

URI_empty == <<>>

URI_invalid == <<"i","n","v","a","l","i","d","-","u","r","i">>

URI_single == AgentScheme \o <<"h","e","l","l","o">>

URI_hyphen == AgentScheme \o <<"-","h","e","l","l","o">> \o Dot \o <<"c","o","m">>

\* a valid uri that no table holds, of two labels
URI_short == AgentScheme \o <<"x">> \o Dot \o <<"i","o">>

URI_toolong ==
  AgentScheme \o [i \in 1..250 |-> "a"] \o Dot \o <<"e","x","a","m","p","l","e">>
              \o Dot \o <<"c","o","m">>

(***************************************************************************)
(* validateAgentURI  (resolve.ts 248-281)                                  *)
(***************************************************************************)
MAX_URI_LENGTH == 253

\* One repetition of the regular expression's group, without its final
\* dot: [a-zA-Z0-9]([a-zA-Z0-9-]*[a-zA-Z0-9])?
PatternLabel(part) ==
  /\ Len(part) >= 1
  /\ part[1] \in AlphaNum
  /\ part[Len(part)] \in AlphaNum
  /\ \A i \in 1..Len(part) : part[i] \in AlphaNum \cup {"-"}

\* The tail of the regular expression: [a-zA-Z]{2,}$
PatternTld(part) ==
  /\ Len(part) >= 2
  /\ \A i \in 1..Len(part) : part[i] \in Letters

\* /^agent:\/\/([a-zA-Z0-9]([a-zA-Z0-9-]*[a-zA-Z0-9])?\.)+[a-zA-Z]{2,}$/
\* Neither a label nor the tail can contain a dot, so the match is decided
\* by the dot-separated pieces of what follows the scheme.
PatternTest(uri) ==
  /\ startsWith(uri, AgentScheme)
  /\ LET parts == split(SubSeq(uri, Len(AgentScheme) + 1, Len(uri)), ".")
     IN  /\ Len(parts) >= 2
         /\ \A i \in 1..(Len(parts) - 1) : PatternLabel(parts[i])
         /\ PatternTld(parts[Len(parts)])

validateAgentURI_lengthOnly(uri) ==
  /\ Len(uri) # 0
  /\ Len(uri) <= MAX_URI_LENGTH

validateAgentURI(uri) ==
  IF Len(uri) = 0 \/ Len(uri) > MAX_URI_LENGTH THEN FALSE
  ELSE IF ~startsWith(uri, AgentScheme) THEN FALSE
  ELSE IF ~PatternTest(uri) THEN FALSE
  ELSE LET parts == split(SubSeq(uri, Len(AgentScheme) + 1, Len(uri)), ".")
       IN  IF Len(parts) < 2 THEN FALSE
           ELSE \A i \in 1..Len(parts) :
                  ~( startsWith(parts[i], <<"-">>)
                     \/ endsWith(parts[i], <<"-">>)
                     \/ Len(parts[i]) = 0 )

(***************************************************************************)
(* parseAgentURI  (resolve.ts 286-299); NoMatch is the null result         *)
(***************************************************************************)
NoMatch == [matched |-> FALSE]

parseAgentURI(uri) ==
  IF ~(startsWith(uri, AgentScheme) /\ Len(uri) > Len(AgentScheme))
    THEN NoMatch
    ELSE LET hostname == SubSeq(uri, Len(AgentScheme) + 1, Len(uri))
             parts    == split(hostname, ".")
             from     == IF Len(parts) > 2 THEN 3 ELSE 2
         IN  [ matched      |-> TRUE,
               full         |-> hostname,
               agent_name   |-> parts[1],
               hasService   |-> Len(parts) > 2,
               service      |-> IF Len(parts) > 2 THEN parts[2] ELSE <<>>,
               organization |-> join(SubSeq(parts, from, Len(parts)), ".") ]

(***************************************************************************)
(* Static tables  (resolve.ts 17-132)                                      *)
(***************************************************************************)
\* new Date() evaluated when the module is loaded
LoadTime == 0

InternalResolution ==
  [ttl |-> 3600, cached |-> FALSE, resolver |-> "internal-config", resolved_at |-> LoadTime]

INTERNAL_AGENTS ==
  (URI_hr :>
     [ agent_uri    |-> URI_hr,
       endpoint     |-> "https://hr-system.company.local:8080/agent",
       status       |-> "active",
       capabilities |-> <<"hr", "benefits", "payroll", "internal">>,
       metadata     |-> [organization |-> "Company Corp", version |-> "1.0.0"],
       resolution   |-> InternalResolution ])
  @@
  (URI_itsupport :>
     [ agent_uri    |-> URI_itsupport,
       endpoint     |-> "https://helpdesk.company.local/agent",
       status       |-> "active",
       capabilities |-> <<"it", "support", "troubleshooting", "internal">>,
       metadata     |-> [organization |-> "Company Corp IT", version |-> "1.0.0"],
       resolution   |-> InternalResolution ])
  @@
  (URI_admin :>
     [ agent_uri    |-> URI_admin,
       endpoint     |-> "https://admin-panel.company.local/agent",
       status       |-> "active",
       capabilities |-> <<"admin", "user-management", "internal">>,
       metadata     |-> [organization |-> "Company Corp Admin", version |-> "1.0.0"],
       resolution   |-> InternalResolution ])

DemoResolution ==
  [ttl |-> 300, cached |-> FALSE, resolver |-> "ansregistry.org", resolved_at |-> LoadTime]

DEMO_REGISTRY ==
  (URI_hello :>
     [ agent_uri    |-> URI_hello,
       endpoint     |-> "https://api.ansregistry.org/demo/hello",
       status       |-> "active",
       capabilities |-> <<"chat", "demo">>,
       metadata     |-> [organization |-> "ANS Registry", version |-> "0.1.0"],
       resolution   |-> DemoResolution ])
  @@
  (URI_support :>
     [ agent_uri    |-> URI_support,
       endpoint     |-> "https://api.ansregistry.org/demo/support",
       status       |-> "active",
       capabilities |-> <<"support", "faq", "documentation">>,
       metadata     |-> [organization |-> "ANS Registry", version |-> "1.0.0"],
       resolution   |-> DemoResolution ])
  @@
  (URI_test :>
     [ agent_uri    |-> URI_test,
       endpoint     |-> "https://localhost:3000/agent",
       status       |-> "active",
       capabilities |-> <<"test", "development">>,
       metadata     |-> [version |-> "0.1.0"],
       resolution   |-> DemoResolution ])

(***************************************************************************)
(* Values of the result of one strategy or of resolve                      *)
(***************************************************************************)
\* null: the strategy did not answer
Miss == [miss |-> TRUE]

\* an exception that left the function (a rejected promise for an async one)
Thrown == [thrown |-> TRUE]

\* the promise of a call that has not returned yet
NoResult == [pending |-> TRUE]

IsMiss(r) == "miss" \in DOMAIN r

IsThrown(r) == "thrown" \in DOMAIN r

IsPending(r) == "pending" \in DOMAIN r

\* types.ts isAgentRecord: 'endpoint' in result
isAgentRecord(r) == "endpoint" \in DOMAIN r

\* types.ts isResolutionError: 'error' in result
isResolutionError(r) == "error" \in DOMAIN r

\* JavaScript  x || d  on numbers
OrElse(x, d) == IF x = 0 THEN d ELSE x

\* { ...obj, resolution: res }
WithResolution(obj, res) == [resolution |-> res] @@ obj

(***************************************************************************)
(* State                                                                   *)
(***************************************************************************)
VARIABLES
  useInternalAgents,         \* globalInternalConfig.useInternalAgents
  internalRegistry,          \* globalInternalConfig.internalRegistry: uri -> AgentRecord
  internalWellKnownSources,  \* globalInternalConfig.internalWellKnownSources
  agentsFile,                \* data/internal-agents.json: uri -> StorageAgentRecord
  cache,                     \* SimpleCache.cache: uri -> [data, expires]
  now,                       \* Date.now()
  calls,                     \* the calls of resolve that are suspended or just returned
  batch,                     \* the resolveBatch call in flight or last returned
  started,                   \* calls of resolveCached made so far
  configOps,                 \* configuration and management calls made so far
  discoveryConfig,           \* discovery.ts discoveryConfig
  discovery,                 \* the discoverAgents call in flight or last returned
  healthConfig,              \* health.ts healthConfig
  healthCache,               \* HealthCache.cache: uri -> [health, expires]
  probes,                    \* the calls of checkAgentHealth, in call order
  healthBatch,               \* the checkMultipleAgentsHealth call in flight or last returned
  validation                 \* the call of validateAgentURI last made

vars ==
  <<useInternalAgents, internalRegistry, internalWellKnownSources, agentsFile,
    cache, now, calls, batch, started, configOps, discoveryConfig, discovery,
    healthConfig, healthCache, probes, healthBatch, validation>>

\* what the resolver never touches
Discovery == <<discoveryConfig, discovery>>

\* what neither the resolver nor discovery touches
Health == <<healthConfig, healthCache, probes, healthBatch>>

\* the empty JavaScript object / Map
Empty == <<>>

Has(f, k) == k \in DOMAIN f

\* obj[k] = v  /  map.set(k, v)
Put(f, k, v) == (k :> v) @@ f

\* delete obj[k]  /  map.delete(k)
Remove(f, k) == [x \in DOMAIN f \ {k} |-> f[x]]

(***************************************************************************)
(* The persistent store  (storage.ts 54-121)                               *)
(***************************************************************************)
\* SimpleStorage.getAgent through resolve's getStorage(); `broken` says that
\* the store raises (the data directory cannot be created, or the file
\* holds JSON that is not an object).  undefined is Miss.
getAgent(uri, broken) ==
  IF broken THEN Thrown
  ELSE IF Has(agentsFile, uri) THEN agentsFile[uri]
  ELSE Miss

\* SimpleStorage.addAgent
addAgent(file, uri, data) == Put(file, uri, [agent_uri |-> uri] @@ data)

\* SimpleStorage.removeAgent
removeAgent(file, uri) == IF Has(file, uri) THEN Remove(file, uri) ELSE file

(***************************************************************************)
(* The strategies of the chain                                             *)
(***************************************************************************)
\* resolve.ts 159-183
convertStorageToResolverAgent(storageAgent, t) ==
  [ agent_uri    |-> storageAgent.agent_uri,
    endpoint     |-> storageAgent.endpoint,
    status       |-> IF storageAgent.status = "maintenance" THEN "suspended"
                     ELSE storageAgent.status,
    capabilities |-> storageAgent.capabilities,
    version      |-> storageAgent.version,
    resolution   |-> [ ttl         |-> OrElse(storageAgent.ttl, 300),
                       cached      |-> FALSE,
                       resolver    |-> "persistent-storage",
                       resolved_at |-> t,
                       method      |-> "persistent-storage" ],
    type         |-> "persistent" ]

\* resolve.ts 419-428
ResolveDemo(uri, t) ==
  IF Has(DEMO_REGISTRY, uri)
    THEN WithResolution(DEMO_REGISTRY[uri],
                        [resolved_at |-> t] @@ DEMO_REGISTRY[uri].resolution)
    ELSE Miss

ResolvePersistent_anyStatus(uri, t, broken) ==
  LET persistentAgent == getAgent(uri, broken)
  IN  IF IsThrown(persistentAgent) THEN Miss
      ELSE IF ~IsMiss(persistentAgent)
        THEN convertStorageToResolverAgent(persistentAgent, t)
      ELSE Miss

ResolvePersistent_noCatch(uri, t, broken) ==
  LET persistentAgent == getAgent(uri, broken)
  IN  IF IsThrown(persistentAgent) THEN Thrown
      ELSE IF ~IsMiss(persistentAgent) /\ persistentAgent.status = "active"
        THEN convertStorageToResolverAgent(persistentAgent, t)
      ELSE Miss

\* resolve.ts 430-439: the try block and its catch
ResolvePersistent(uri, t, broken) ==
  LET persistentAgent == getAgent(uri, broken)
  IN  IF IsThrown(persistentAgent) THEN Miss
      ELSE IF ~IsMiss(persistentAgent) /\ persistentAgent.status = "active"
        THEN convertStorageToResolverAgent(persistentAgent, t)
      ELSE Miss

\* resolve.ts 442: whether the static internal table is read at all
InternalEnabled_ignoreFlag == TRUE

InternalEnabled == useInternalAgents

\* resolve.ts 442-450
ResolveInternal(uri, t) ==
  IF Has(INTERNAL_AGENTS, uri)
    THEN WithResolution(INTERNAL_AGENTS[uri],
                        [resolved_at |-> t] @@ INTERNAL_AGENTS[uri].resolution)
    ELSE Miss

\* resolve.ts 453-464
ResolveRuntime(uri, t) ==
  IF Has(internalRegistry, uri)
    THEN LET agent == internalRegistry[uri]
             given == Has(agent, "resolution")
         IN  WithResolution(agent,
               [ ttl         |-> IF given THEN OrElse(agent.resolution.ttl, 300) ELSE 300,
                 cached      |-> IF given THEN agent.resolution.cached ELSE FALSE,
                 resolver    |-> IF given /\ agent.resolution.resolver # ""
                                   THEN agent.resolution.resolver
                                   ELSE "internal-registry",
                 resolved_at |-> t ])
    ELSE Miss

(***************************************************************************)
(* Well-known documents                                                    *)
(***************************************************************************)
\* What one fetch of a well-known document can end in.
\*   timeout        the AbortController fired after 5000 ms: fetch rejects
\*   network-error  fetch rejects
\*   http-error     a response with ok = false
\*   malformed-json response.json() rejects
\*   no-agents      a JSON body without an agents array
\*   document       a JSON body with an agents array
FetchFailures == {"timeout", "network-error", "http-error", "malformed-json"}

Outcome(kind, agents) == [kind |-> kind, agents |-> agents]

\* data.agents?.find(a => a.agent_uri === uri); undefined is Miss
FindAgent(agents, uri) ==
  IF \E i \in 1..Len(agents) : agents[i].agent_uri = uri
    THEN agents[CHOOSE i \in 1..Len(agents) :
                  /\ agents[i].agent_uri = uri
                  /\ \A j \in 1..(i - 1) : agents[j].agent_uri # uri]
    ELSE Miss

\* what the body of a try block yields: a value, or Thrown when fetch or
\* response.json() rejects
FetchBody(outcome, uri) ==
  IF outcome.kind \in {"timeout", "network-error", "malformed-json"} THEN Thrown
  ELSE IF outcome.kind = "http-error" THEN Miss
  ELSE FindAgent(outcome.agents, uri)

resolveViaInternalWellKnown_noCatch(uri, source, outcome, t) ==
  LET agent == FetchBody(outcome, uri)
  IN  IF IsThrown(agent) THEN Thrown
      ELSE IF IsMiss(agent) THEN Miss
      ELSE
        [ agent_uri    |-> agent.agent_uri,
          endpoint     |-> agent.endpoint,
          status       |-> IF Has(agent, "status") THEN agent.status ELSE "active",
          capabilities |-> IF Has(agent, "capabilities") THEN agent.capabilities ELSE <<>>,
          resolution   |-> [ ttl |-> 300, cached |-> FALSE,
                             resolver |-> "internal-well-known", resolved_at |-> t,
                             method |-> "internal-well-known", source |-> source ] ]
        @@ (IF Has(agent, "type") THEN [type |-> agent.type] ELSE Empty)

\* resolve.ts 349-397
resolveViaInternalWellKnown(uri, source, outcome, t) ==
  LET agent == FetchBody(outcome, uri)
  IN  IF IsThrown(agent) THEN Miss
      ELSE IF IsMiss(agent) THEN Miss
      ELSE
        [ agent_uri    |-> agent.agent_uri,
          endpoint     |-> agent.endpoint,
          status       |-> IF Has(agent, "status") THEN agent.status ELSE "active",
          capabilities |-> IF Has(agent, "capabilities") THEN agent.capabilities ELSE <<>>,
          resolution   |-> [ ttl |-> 300, cached |-> FALSE,
                             resolver |-> "internal-well-known", resolved_at |-> t,
                             method |-> "internal-well-known", source |-> source ] ]
        @@ (IF Has(agent, "type") THEN [type |-> agent.type] ELSE Empty)

\* resolve.ts 304-344, after the fetch has been issued
resolveViaWellKnown(uri, outcome, t) ==
  LET agent == FetchBody(outcome, uri)
  IN  IF IsThrown(agent) THEN Miss
      ELSE IF IsMiss(agent) THEN Miss
      ELSE WithResolution(agent,
             [ ttl |-> 300, cached |-> FALSE, resolver |-> "well-known",
               resolved_at |-> t, method |-> "well-known" ])

\* resolve.ts 399-403
resolveViaDNS(uri) == Miss

\* resolve.ts 411-416
InvalidURI(uri) ==
  [ error |-> "Invalid URI format", code |-> 400,
    message |-> "Invalid URI format. Agent URI must follow format: agent://[agent-name].[service].[organization].[tld]",
    agent_uri |-> uri ]

NotFound_wrongCode(uri) ==
  [ error |-> "Agent not found", code |-> 400,
    message |-> "Agent is not registered or not resolvable", agent_uri |-> uri ]

\* resolve.ts 489-494
NotFound(uri) ==
  [ error |-> "Agent not found", code |-> 404,
    message |-> "Agent is not registered or not resolvable", agent_uri |-> uri ]

(***************************************************************************)
(* resolve  (resolve.ts 408-495)                                           *)
(*                                                                         *)
(* A call runs without interruption up to its first await.  The table and  *)
(* store strategies have no await, so they all run in the step that starts *)
(* the call; every fetch is a point where the call is suspended and other  *)
(* calls, configuration changes and the clock may move.                    *)
(*                                                                         *)
(* trace lists the strategies the call has consulted, in order:            *)
(*   s       the strategy                                                  *)
(*   hit     it answered                                                   *)
(*   failed  its source failed (the store raised, the fetch failed)        *)
(*   source  the configured source asked (internal well-known only)        *)
(*   found   what it looked in holds the uri (for a fetch: the document     *)
(*           that came back lists an agent with that agent_uri)            *)
(***************************************************************************)
Consulted(s, r, failed, source) ==
  [ s |-> s, hit |-> ~IsMiss(r) /\ ~IsThrown(r), failed |-> failed, source |-> source,
    found |-> ~IsMiss(r) /\ ~IsThrown(r) ]

\* the document that came back lists an agent with this agent_uri
Lists(outcome, uri) ==
  /\ outcome.kind = "document"
  /\ \E i \in 1..Len(outcome.agents) : outcome.agents[i].agent_uri = uri

SyncStrategies_storeFirst ==
  <<"persistent-storage", "demo", "internal-config", "internal-registry">>

\* the order of the blocks of resolve.ts 419-464
SyncStrategies ==
  <<"demo", "persistent-storage", "internal-config", "internal-registry">>

TryStrategy(name, uri, t, broken) ==
  CASE name = "demo"               -> ResolveDemo(uri, t)
    [] name = "persistent-storage" -> ResolvePersistent(uri, t, broken)
    [] name = "internal-config"    -> ResolveInternal(uri, t)
    [] name = "internal-registry"  -> ResolveRuntime(uri, t)

\* The strategies from the i-th on, up to the first that answers or raises.
RECURSIVE RunSync(_, _, _, _, _)
RunSync(i, uri, t, broken, trace) ==
  IF i > Len(SyncStrategies) THEN [result |-> Miss, trace |-> trace]
  ELSE LET name == SyncStrategies[i]
       IN  IF name = "internal-config" /\ ~InternalEnabled
             THEN RunSync(i + 1, uri, t, broken, trace)
             ELSE LET r    == TryStrategy(name, uri, t, broken)
                      step == Consulted(name, r, name = "persistent-storage" /\ broken, "")
                  IN  IF IsMiss(r)
                        THEN RunSync(i + 1, uri, t, broken, Append(trace, step))
                        ELSE [result |-> r, trace |-> Append(trace, step)]

\* the call going back to its first source after the last one missed
AfterSync_startsOver(uri, srcs, idx, trace) ==
  IF idx <= Len(srcs)
    THEN [pc |-> "fetch", idx |-> idx, result |-> NoResult, trace |-> trace]
  ELSE IF Len(srcs) > 0
    THEN [pc |-> "fetch", idx |-> 1, result |-> NoResult, trace |-> trace]
  ELSE IF parseAgentURI(uri).matched
    THEN [pc |-> "fetch", idx |-> Len(srcs) + 1, result |-> NoResult, trace |-> trace]
  ELSE [ pc |-> "done", idx |-> 0, result |-> NotFound(uri),
         trace |-> trace \o << Consulted("well-known", Miss, FALSE, ""),
                               Consulted("dns", resolveViaDNS(uri), FALSE, "") >> ]

\* The call from its idx-th fetch on (the public document is the one after
\* the last configured source), up to the next await or to its result.
AfterSync(uri, srcs, idx, trace) ==
  IF idx <= Len(srcs)
    THEN [pc |-> "fetch", idx |-> idx, result |-> NoResult, trace |-> trace]
  ELSE IF parseAgentURI(uri).matched
    THEN [pc |-> "fetch", idx |-> Len(srcs) + 1, result |-> NoResult, trace |-> trace]
  ELSE [ pc |-> "done", idx |-> 0, result |-> NotFound(uri),
         trace |-> trace \o << Consulted("well-known", Miss, FALSE, ""),
                               Consulted("dns", resolveViaDNS(uri), FALSE, "") >> ]

\* resolve from its entry to its first await or its result
ResolveBegin(uri, t, broken) ==
  IF Len(uri) = 0 \/ ~validateAgentURI(uri)
    THEN [pc |-> "done", idx |-> 0, result |-> InvalidURI(uri), trace |-> <<>>]
    ELSE LET r == RunSync(1, uri, t, broken, <<>>)
         IN  IF ~IsMiss(r.result)
               THEN [pc |-> "done", idx |-> 0, result |-> r.result, trace |-> r.trace]
               ELSE AfterSync(uri, internalWellKnownSources, 1, r.trace)

ResolveResume_queriesAll(c, outcome, t) ==
  LET failed == outcome.kind \in FetchFailures
      inner  == c.idx <= Len(c.srcs)
      r      == IF inner
                  THEN resolveViaInternalWellKnown(c.uri, c.srcs[c.idx], outcome, t)
                  ELSE resolveViaWellKnown(c.uri, outcome, t)
      step   == [ (IF inner
                     THEN Consulted("internal-well-known", r, failed, c.srcs[c.idx])
                     ELSE Consulted("well-known", r, failed, ""))
                  EXCEPT !.found = Lists(outcome, c.uri) ]
      trace  == Append(c.trace, step)
  IN  IF ~IsMiss(r) /\ ~(inner /\ c.idx < Len(c.srcs))
        THEN [pc |-> "done", idx |-> 0, result |-> r, trace |-> trace]
      ELSE IF inner
        THEN AfterSync(c.uri, c.srcs, c.idx + 1, trace)
      ELSE [ pc |-> "done", idx |-> 0, result |-> NotFound(c.uri),
             trace |-> Append(trace, Consulted("dns", resolveViaDNS(c.uri), FALSE, "")) ]

\* resolve from the return of its pending fetch to its next await or result
ResolveResume(c, outcome, t) ==
  LET failed == outcome.kind \in FetchFailures
      inner  == c.idx <= Len(c.srcs)
      r      == IF inner
                  THEN resolveViaInternalWellKnown(c.uri, c.srcs[c.idx], outcome, t)
                  ELSE resolveViaWellKnown(c.uri, outcome, t)
      step   == [ (IF inner
                     THEN Consulted("internal-well-known", r, failed, c.srcs[c.idx])
                     ELSE Consulted("well-known", r, failed, ""))
                  EXCEPT !.found = Lists(outcome, c.uri) ]
      trace  == Append(c.trace, step)
  IN  IF ~IsMiss(r)
        THEN [pc |-> "done", idx |-> 0, result |-> r, trace |-> trace]
      ELSE IF inner
        THEN AfterSync(c.uri, c.srcs, c.idx + 1, trace)
      ELSE [ pc |-> "done", idx |-> 0, result |-> NotFound(c.uri),
             trace |-> Append(trace, Consulted("dns", resolveViaDNS(c.uri), FALSE, "")) ]

(***************************************************************************)
(* SimpleCache  (resolve.ts 508-540)                                       *)
(* insertedAt (when the entry was stored) is history kept for the          *)
(* properties; the code holds data and expires.                            *)
(***************************************************************************)
\* SimpleCache.set
CacheSet(c, key, data, ttlSeconds, t) ==
  Put(c, key, [data |-> data, expires |-> t + ttlSeconds * 1000, insertedAt |-> t])

CacheGet_refresh(c, key, t) ==
  IF ~Has(c, key) THEN [cache |-> c, value |-> Miss]
  ELSE IF t > c[key].expires THEN [cache |-> Remove(c, key), value |-> Miss]
  ELSE [ cache |-> [c EXCEPT ![key].expires =
                               t + c[key].data.resolution.ttl * 1000],
         value |-> WithResolution(c[key].data,
                     [cached |-> TRUE, resolved_at |-> t] @@ c[key].data.resolution) ]

\* SimpleCache.get: the cache it leaves and the value it returns (null is Miss)
CacheGet(c, key, t) ==
  IF ~Has(c, key) THEN [cache |-> c, value |-> Miss]
  ELSE IF t > c[key].expires THEN [cache |-> Remove(c, key), value |-> Miss]
  ELSE [ cache |-> c,
         value |-> WithResolution(c[key].data,
                     [cached |-> TRUE, resolved_at |-> t] @@ c[key].data.resolution) ]

\* resolveCached after its await of resolve (resolve.ts 556-559)
CacheAfter(c, api, uri, result, t) ==
  IF api = "resolveCached" /\ isAgentRecord(result)
    THEN CacheSet(c, uri, result,
                  IF Has(result, "resolution") THEN OrElse(result.resolution.ttl, 300)
                  ELSE 300,
                  t)
    ELSE c

(***************************************************************************)
(* Inputs                                                                  *)
(***************************************************************************)
InputURIs ==
  {URI_empty, URI_invalid, URI_hello, URI_hr, URI_custom, URI_nonexistent}

RECURSIVE SeqsUpTo(_, _)
SeqsUpTo(S, n) ==
  IF n = 0 THEN {<<>>}
  ELSE LET shorter == SeqsUpTo(S, n - 1)
       IN  shorter \cup {Append(q, x) : q \in shorter, x \in S}

BatchInputs == SeqsUpTo(InputURIs, MaxBatch)

Source1 == "https://internal.company.com/.well-known/agents.json"

Source2 == "https://backup.company.com/.well-known/agents.json"

\* AgentRecords as a caller may hand them to configureInternalAgents: the
\* README's (no agent_uri, no resolution) and one a caller kept from an
\* earlier resolveCached hit, when the public well-known document had
\* answered (its resolution filled in: resolver 'well-known', cached = true).
ConfiguredPlain ==
  [ endpoint |-> "https://custom.test.local/agent", status |-> "active",
    capabilities |-> <<"custom", "configured">> ]

ConfiguredStamped ==
  [ agent_uri |-> URI_custom, endpoint |-> "https://custom.test.local/agent",
    status |-> "active", capabilities |-> <<"custom", "configured">>,
    resolution |-> [ ttl |-> 300, cached |-> TRUE, resolver |-> "well-known",
                     resolved_at |-> LoadTime, method |-> "well-known" ] ]

Configs ==
  { [useInternalAgents |-> FALSE],
    [useInternalAgents |-> TRUE],
    [internalWellKnownSources |-> <<Source1>>],
    [internalWellKnownSources |-> <<Source1, Source2>>],
    [internalRegistry |-> (URI_custom :> ConfiguredPlain)],
    [useInternalAgents |-> TRUE, internalRegistry |-> (URI_custom :> ConfiguredStamped)] }

\* Partial<AgentRecord> arguments of registerInternalAgent
RegisterURIs == {URI_hello, URI_hr}

RegisterAgents ==
  { [endpoint |-> "https://minimal.example.local/agent"],
    [ endpoint |-> "https://runtime-test.example.local/agent", status |-> "active",
      capabilities |-> <<"runtime", "test">>, type |-> "system" ],
    [ endpoint |-> "https://old.example.local/agent", status |-> "inactive",
      type |-> "persistent" ],
    [status |-> "suspended", capabilities |-> <<"paused">>] }

\* Entries of a well-known document
WellKnownFull(uri) ==
  [ agent_uri |-> uri, endpoint |-> "https://api.example.com/agents/full",
    status |-> "maintenance", capabilities |-> <<"billing">>, type |-> "system" ]

WellKnownMinimal(uri) ==
  [agent_uri |-> uri, endpoint |-> "https://api.example.com/agents/minimal"]

\* an entry with a field of its own beside the AgentRecord ones
WellKnownRetired(uri) ==
  [ agent_uri |-> uri, endpoint |-> "https://api.example.com/agents/retired",
    status |-> "inactive", error |-> "Agent retired" ]

Outcomes(uri) ==
  { Outcome(k, <<>>) : k \in FetchFailures }
  \cup { Outcome("document", <<>>),
         Outcome("document", <<WellKnownFull(URI_support)>>),
         Outcome("document", <<WellKnownFull(URI_support), WellKnownFull(uri)>>),
         Outcome("document", <<WellKnownMinimal(uri), WellKnownFull(uri)>>),
         Outcome("document", <<WellKnownRetired(uri)>>) }

\* the instants at which the clock is read: at load, and around the ends of
\* the TTLs in use (300 s and 3600 s after load)
Instants == {LoadTime, 300 * 1000, 300 * 1000 + 1, 3600 * 1000, 3600 * 1000 + 1}

(***************************************************************************)
(* Calls                                                                   *)
(*                                                                         *)
(* calls holds the suspended calls and the calls that returned in the last *)
(* step that started or resumed a call (the items of a batch stay until    *)
(* the batch has returned): a returned call is dropped when the next call  *)
(* starts or resumes.                                                      *)
(***************************************************************************)
\* What the store holds for uri when a call starts.
Stored(uri, broken) ==
  IF broken THEN "raises"
  ELSE IF Has(agentsFile, uri) THEN agentsFile[uri].status
  ELSE "absent"

\* how many items of the batch have returned
Returned(cs) ==
  Cardinality({k \in 1..Len(cs) : cs[k].api = "resolveBatch" /\ cs[k].pc = "done"})

\* A call of resolve, started by `api` at position pos of its batch (0 when
\* it is no batch item), after its first run `run`; seq counts the items of
\* the batch that returned before it.
\* at, flag, stored and entry record what the call found when it started
\* (the clock, the useInternalAgents flag, the store's answer, the cache
\* entry) and served that the cache answered; the properties read them.
NewCall(api, pos, uri, broken, run, seq) ==
  [ api     |-> api,
    pos     |-> pos,
    uri     |-> uri,
    pc      |-> run.pc,
    srcs    |-> internalWellKnownSources,
    idx     |-> run.idx,
    trace   |-> run.trace,
    result  |-> run.result,
    doneSeq |-> IF run.pc = "done" /\ api = "resolveBatch" THEN seq + 1 ELSE 0,
    at      |-> now,
    flag    |-> useInternalAgents,
    stored  |-> Stored(uri, broken),
    entry   |-> IF Has(cache, uri) THEN cache[uri] ELSE Miss,
    served  |-> FALSE ]

\* the calls still of interest when a call starts or resumes
Live(c) == c.pc # "done" \/ (c.api = "resolveBatch" /\ batch.state = "pending")

Config == <<useInternalAgents, internalRegistry, internalWellKnownSources>>

Suspended == {k \in 1..Len(calls) : calls[k].pc # "done"}

\* resolve(uri) saving what it looked up in the store
Resolve_savesLookup(uri, broken) ==
  /\ Suspended = {}
  /\ LET run == ResolveBegin(uri, now, broken)
     IN  calls' = Append(SelectSeq(calls, Live), NewCall("resolve", 0, uri, broken, run, 0))
  /\ agentsFile' = addAgent(agentsFile, uri, [endpoint |-> "", status |-> "active"])
  /\ UNCHANGED <<validation, Health, Discovery, Config, cache, now, batch, started, configOps>>

\* resolve(uri).  resolve writes no shared state, so calls of it cannot
\* affect each other: one is followed at a time here, and overlapping calls
\* are those of resolveBatch.
Resolve(uri, broken) ==
  /\ Suspended = {}
  /\ LET run == ResolveBegin(uri, now, broken)
     IN  calls' = Append(SelectSeq(calls, Live), NewCall("resolve", 0, uri, broken, run, 0))
  /\ UNCHANGED <<validation, Health, Discovery, Config, agentsFile, cache, now, batch, started, configOps>>

\* resolveCached(uri) marking the record it holds as served from the cache
ResolveCached_stampsEntry(uri, broken) ==
  /\ started < MaxCalls
  /\ started' = started + 1
  /\ LET cached == CacheGet(cache, uri, now)
         seq    == 0
     IN  IF ~IsMiss(cached.value)
           THEN /\ calls' = Append(SelectSeq(calls, Live),
                      [ NewCall("resolveCached", 0, uri, broken,
                                [pc |-> "done", idx |-> 0, result |-> cached.value,
                                 trace |-> <<>>], seq)
                        EXCEPT !.served = TRUE ])
                /\ cache' = [cached.cache EXCEPT ![uri].data = cached.value]
           ELSE LET run == ResolveBegin(uri, now, broken)
                IN  /\ calls' = Append(SelectSeq(calls, Live),
                          NewCall("resolveCached", 0, uri, broken, run, seq))
                    /\ cache' = IF run.pc = "done"
                                  THEN CacheAfter(cached.cache, "resolveCached", uri,
                                                  run.result, now)
                                  ELSE cached.cache
  /\ UNCHANGED <<validation, Health, Discovery, Config, agentsFile, now, batch, configOps>>

\* resolveCached(uri)  (resolve.ts 548-562)
ResolveCached(uri, broken) ==
  /\ started < MaxCalls
  /\ started' = started + 1
  /\ LET cached == CacheGet(cache, uri, now)
         seq    == 0
     IN  IF ~IsMiss(cached.value)
           THEN /\ calls' = Append(SelectSeq(calls, Live),
                      [ NewCall("resolveCached", 0, uri, broken,
                                [pc |-> "done", idx |-> 0, result |-> cached.value,
                                 trace |-> <<>>], seq)
                        EXCEPT !.served = TRUE ])
                /\ cache' = cached.cache
           ELSE LET run == ResolveBegin(uri, now, broken)
                IN  /\ calls' = Append(SelectSeq(calls, Live),
                          NewCall("resolveCached", 0, uri, broken, run, seq))
                    /\ cache' = IF run.pc = "done"
                                  THEN CacheAfter(cached.cache, "resolveCached", uri,
                                                  run.result, now)
                                  ELSE cached.cache
  /\ UNCHANGED <<validation, Health, Discovery, Config, agentsFile, now, batch, configOps>>

\* cs without its returned calls, except the k-th
RECURSIVE DropReturned(_, _, _)
DropReturned(cs, k, n) ==
  IF n > Len(cs) THEN <<>>
  ELSE (IF n = k \/ Live(cs[n]) THEN <<cs[n]>> ELSE <<>>) \o DropReturned(cs, k, n + 1)

\* The pending fetch of call i returns; the call runs to its next await or
\* to its result, and a resolveCached call then stores a record it got.
FetchReturn(i, outcome) ==
  /\ calls[i].pc = "fetch"
  /\ LET c   == calls[i]
         run == ResolveResume(c, outcome, now)
         seq == Returned(calls)
         c2  == [c EXCEPT !.pc = run.pc, !.idx = run.idx, !.trace = run.trace,
                          !.result = run.result,
                          !.doneSeq = IF run.pc = "done" /\ c.api = "resolveBatch"
                                        THEN seq + 1 ELSE 0]
     IN  /\ calls' = DropReturned([calls EXCEPT ![i] = c2], i, 1)
         /\ cache' = IF run.pc = "done"
                       THEN CacheAfter(cache, c.api, c.uri, run.result, now)
                       ELSE cache
  /\ UNCHANGED <<validation, Health, Discovery, Config, agentsFile, now, batch, started, configOps>>

(***************************************************************************)
(* resolveBatch  (resolve.ts 500-503)                                      *)
(***************************************************************************)
NoBatch == [state |-> "none", uris |-> <<>>, rejected |-> FALSE, out |-> <<>>]

\* uris.map(uri => resolve(uri)): the calls are started in index order, each
\* up to its first await
RECURSIVE StartAll(_, _, _, _, _)
StartAll(uris, k, broken, acc, seq) ==
  IF k > Len(uris) THEN acc
  ELSE LET run == ResolveBegin(uris[k], now, broken)
           c   == NewCall("resolveBatch", k, uris[k], broken, run, seq)
       IN  StartAll(uris, k + 1, broken, Append(acc, c),
                    IF run.pc = "done" THEN seq + 1 ELSE seq)

ResolveBatch(uris, broken) ==
  /\ batch.state = "none"
  /\ calls' = StartAll(uris, 1, broken, SelectSeq(calls, LAMBDA c : c.pc # "done"), 0)
  /\ batch' = [NoBatch EXCEPT !.state = "pending", !.uris = uris]
  /\ UNCHANGED <<validation, Health, Discovery, Config, agentsFile, cache, now, started, configOps>>

\* the items in the order their calls returned
RECURSIVE ByCompletion(_)
ByCompletion(items) ==
  IF items = {} THEN <<>>
  ELSE LET c == CHOOSE x \in items : \A y \in items : x.doneSeq <= y.doneSeq
       IN  <<c.result>> \o ByCompletion(items \ {c})

PromiseAll_completionOrder(items) ==
  [ rejected |-> \E k \in 1..Len(items) : IsThrown(items[k].result),
    out      |-> ByCompletion({items[k] : k \in 1..Len(items)}) ]

\* Promise.all over the mapped calls: the results by position, or a
\* rejection when a call raised
PromiseAll(items) ==
  [ rejected |-> \E k \in 1..Len(items) : IsThrown(items[k].result),
    out      |-> [k \in 1..Len(items) |-> items[k].result] ]

\* the calls of the batch, which were started in the order of its uris
BatchItems == SelectSeq(calls, LAMBDA c : c.api = "resolveBatch")

BatchReturn ==
  /\ batch.state = "pending"
  /\ \A k \in 1..Len(BatchItems) : BatchItems[k].pc = "done"
  /\ LET all == PromiseAll(BatchItems)
     IN  batch' = [batch EXCEPT !.state = "returned", !.rejected = all.rejected,
                                !.out = IF all.rejected THEN <<>> ELSE all.out]
  /\ UNCHANGED <<validation, Health, Discovery, Config, agentsFile, cache, now, calls, started, configOps>>

(***************************************************************************)
(* Configuration and management calls                                      *)
(***************************************************************************)
\* resolve.ts 188-190: globalInternalConfig = { ...globalInternalConfig, ...config }
configureInternalAgents(config) ==
  /\ configOps < MaxConfigOps
  /\ configOps' = configOps + 1
  /\ useInternalAgents' =
       IF Has(config, "useInternalAgents") THEN config.useInternalAgents
       ELSE useInternalAgents
  /\ internalRegistry' =
       IF Has(config, "internalRegistry") THEN config.internalRegistry
       ELSE internalRegistry
  /\ internalWellKnownSources' =
       IF Has(config, "internalWellKnownSources") THEN config.internalWellKnownSources
       ELSE internalWellKnownSources
  /\ UNCHANGED <<validation, Health, Discovery, agentsFile, cache, now, calls, batch, started>>

\* resolve.ts 200-221
RuntimeRecord(uri, agent, t) ==
  [ agent_uri    |-> uri,
    endpoint     |-> IF Has(agent, "endpoint") THEN agent.endpoint ELSE "",
    status       |-> IF Has(agent, "status") THEN agent.status ELSE "active",
    capabilities |-> IF Has(agent, "capabilities") THEN agent.capabilities ELSE <<>>,
    resolution   |-> [ ttl |-> 3600, cached |-> FALSE, resolver |-> "internal-registry",
                       resolved_at |-> t ] ]
  @@ (IF Has(agent, "type") THEN [type |-> agent.type] ELSE Empty)

\* resolve.ts 229-241: the fields handed to storage.addAgent
StorageFields(agent) ==
  [ endpoint     |-> IF Has(agent, "endpoint") THEN agent.endpoint ELSE "",
    status       |-> IF Has(agent, "status")
                       THEN (IF agent.status = "suspended" THEN "maintenance"
                             ELSE agent.status)
                       ELSE "active",
    capabilities |-> IF Has(agent, "capabilities") THEN agent.capabilities ELSE <<>>,
    version      |-> IF Has(agent, "version") THEN agent.version ELSE "1.0.0",
    ttl          |-> IF Has(agent, "resolution") THEN OrElse(agent.resolution.ttl, 3600)
                     ELSE 3600 ]

\* resolve.ts 195-246; `broken`: the store raises, which the catch swallows
registerInternalAgent(uri, agent, broken) ==
  /\ configOps < MaxConfigOps
  /\ configOps' = configOps + 1
  /\ internalRegistry' = Put(internalRegistry, uri, RuntimeRecord(uri, agent, now))
  /\ agentsFile' =
       IF (~Has(agent, "type") \/ agent.type = "persistent") /\ ~broken
         THEN addAgent(agentsFile, uri, StorageFields(agent))
         ELSE agentsFile
  /\ UNCHANGED <<validation, Health, Discovery, useInternalAgents, internalWellKnownSources, cache, now, calls, batch,
                 started>>

\* resolve.ts 589-597
removePersistentAgent(uri, broken) ==
  /\ configOps < MaxConfigOps
  /\ configOps' = configOps + 1
  /\ agentsFile' = IF broken THEN agentsFile ELSE removeAgent(agentsFile, uri)
  /\ UNCHANGED <<validation, Health, Discovery, Config, cache, now, calls, batch, started>>

\* resolve.ts 599-607
clearPersistentAgents(broken) ==
  /\ configOps < MaxConfigOps
  /\ configOps' = configOps + 1
  /\ agentsFile' = IF broken THEN agentsFile ELSE Empty
  /\ UNCHANGED <<validation, Health, Discovery, Config, cache, now, calls, batch, started>>

(***************************************************************************)
(* A call of validateAgentURI by a client                                  *)
(***************************************************************************)
NoValidation == [state |-> "none"]

ValidateAgentURI(uri) ==
  /\ validation' = [state |-> "returned", uri |-> uri, valid |-> validateAgentURI(uri)]
  /\ UNCHANGED <<Health, Discovery, Config, agentsFile, cache, now, calls, batch, started,
                 configOps>>

\* time passes
Tick(t) ==
  /\ t > now
  /\ now' = t
  /\ UNCHANGED <<validation, Health, Discovery, Config, agentsFile, cache, calls, batch, started, configOps>>

(***************************************************************************)
(* Discovery  (discovery.ts)                                               *)
(*                                                                         *)
(* Strings that discovery only compares are TLA+ strings.  Where it looks  *)
(* inside one (startsWith, replace, toLowerCase, includes, join) the       *)
(* string is taken through Spell to its characters.                        *)
(***************************************************************************)
UpperCase ==
  <<"A","B","C","D","E","F","G","H","I","J","K","L","M",
    "N","O","P","Q","R","S","T","U","V","W","X","Y","Z">>

LowerCase ==
  <<"a","b","c","d","e","f","g","h","i","j","k","l","m",
    "n","o","p","q","r","s","t","u","v","w","x","y","z">>

\* the characters of the strings in use
Spell ==
  [ chat     |-> <<"c","h","a","t">>,
    search   |-> <<"s","e","a","r","c","h">>,
    billing  |-> <<"b","i","l","l","i","n","g">>,
    Greeter  |-> <<"G","r","e","e","t","e","r">>,
    CHAT     |-> <<"C","H","A","T">> ]
  @@ ("Help desk" :> <<"H","e","l","p"," ","d","e","s","k">>)
  @@ ("chat search" :> <<"c","h","a","t"," ","s","e","a","r","c","h">>)
  @@ ("acme.example" :> <<"a","c","m","e",".","e","x","a","m","p","l","e">>)
  @@ ("org:acme.example" :>
        <<"o","r","g",":","a","c","m","e",".","e","x","a","m","p","l","e">>)
  @@ ("bulk.example" :> <<"b","u","l","k",".","e","x","a","m","p","l","e">>)
  @@ ("team:support" :> <<"t","e","a","m",":","s","u","p","p","o","r","t">>)
  @@ ("ansregistry.org" :>
        <<"a","n","s","r","e","g","i","s","t","r","y",".","o","r","g">>)
  @@ ("demo.ansregistry" :>
        <<"d","e","m","o",".","a","n","s","r","e","g","i","s","t","r","y">>)
  @@ ("" :> <<>>)

\* the string with the given characters
Unspell(chars) == CHOOSE s \in DOMAIN Spell : Spell[s] = chars

\* String.prototype.toLowerCase, on characters
toLowerCase(text) ==
  [ i \in 1..Len(text) |->
      IF \E k \in 1..Len(UpperCase) : UpperCase[k] = text[i]
        THEN LowerCase[CHOOSE k \in 1..Len(UpperCase) : UpperCase[k] = text[i]]
        ELSE text[i] ]

\* String.prototype.includes, on characters
includes(text, part) ==
  \E i \in 0..(Len(text) - Len(part)) : SubSeq(text, i + 1, i + Len(part)) = part

\* Array.prototype.includes
Includes(array, x) == \E i \in 1..Len(array) : array[i] = x

\* Array.prototype.filter
Filter(array, Test(_)) == SelectSeq(array, Test)

\* Array.prototype.flat, one level
RECURSIVE flat(_)
flat(arrays) == IF arrays = <<>> THEN <<>> ELSE Head(arrays) \o flat(Tail(arrays))

\* the field of obj when it is there: { key: obj.key } without undefined
Field(obj, key) == IF Has(obj, key) THEN [k \in {key} |-> obj[key]] ELSE Empty

\* discovery.ts 27-32
DEFAULT_CONFIG ==
  [ default_timeout |-> 5000, max_concurrent_requests |-> 10,
    health_check_enabled |-> TRUE, cache_ttl |-> 300000 ]

\* discovery.ts 50-52
configureDiscovery(config) ==
  /\ discoveryConfig' = config @@ discoveryConfig
  /\ discoveryConfig' # discoveryConfig
  /\ UNCHANGED <<validation, Health, Config, agentsFile, cache, now, calls, batch, started, configOps, discovery>>

\* storage.ts 204-224: POST /api/agents
PostAgent(body) ==
  /\ ~Has(agentsFile, body.agent_uri)
  /\ agentsFile' =
       addAgent(agentsFile, body.agent_uri,
                [ endpoint     |-> body.endpoint,
                  status       |-> IF Has(body, "status") THEN body.status ELSE "active",
                  capabilities |-> IF Has(body, "capabilities") THEN body.capabilities
                                   ELSE <<>>,
                  version      |-> "1.0.0",
                  metadata     |-> IF Has(body, "metadata") THEN body.metadata
                                   ELSE Empty ])
  /\ UNCHANGED <<validation, Health, Discovery, Config, cache, now, calls, batch, started, configOps>>

\* storage.ts 123-138 without a filter: Object.values(agents), which is the
\* order the keys were inserted in; `order` is that order
listAgents(file, order) == [i \in 1..Len(order) |-> file[order[i]]]

\* the orders the keys in S can have been inserted in
Orders(S) == {o \in [1..Cardinality(S) -> S] : \A x \in S : \E i \in DOMAIN o : o[i] = x}

\* discovery.ts 180-187: the metadata of a store record as discovery shows it;
\* a field that is undefined is left out
LocalMetadata(storageAgent) ==
  LET m == IF Has(storageAgent, "metadata") THEN storageAgent.metadata ELSE Empty
      tags == IF Has(m, "tags") THEN m.tags ELSE <<>>
      org == Filter(tags, LAMBDA t : startsWith(Spell[t], <<"o","r","g",":">>))
  IN  Field(storageAgent, "version")
      @@ Field(m, "description")
      @@ (IF Has(m, "owner") THEN [contact |-> m.owner] ELSE Empty)
      @@ (IF org # <<>>
            THEN [organization |-> Unspell(SubSeq(Spell[org[1]], 5, Len(Spell[org[1]])))]
            ELSE Empty)
      @@ Field(m, "discovery_level")

\* discovery.ts 174-203: one store record as a DiscoveredAgent
LocalAgent(storageAgent, found, t) ==
  [ agent_uri    |-> storageAgent.agent_uri,
    endpoint     |-> storageAgent.endpoint,
    status       |-> IF storageAgent.status = "maintenance" THEN "suspended"
                     ELSE storageAgent.status,
    capabilities |-> IF Has(storageAgent, "capabilities") THEN storageAgent.capabilities
                     ELSE <<>>,
    metadata     |-> LocalMetadata(storageAgent),
    resolution   |-> [ ttl         |-> IF Has(storageAgent, "ttl")
                                         THEN OrElse(storageAgent.ttl, 300) ELSE 300,
                       cached      |-> FALSE,
                       resolver    |-> "local-storage",
                       resolved_at |-> t,
                       method      |-> "persistent-storage" ],
    type         |-> "persistent",
    discovery_source |-> [name |-> "local-storage", type |-> "local",
                          agents_found |-> found] ]
  @@ Field(storageAgent, "version")

\* discovery.ts 165-216; `broken`: the store raises, and the catch raises
\* again.  Thrown is the rejected promise.
discoverFromLocal(file, order, broken, t) ==
  IF broken THEN Thrown
  ELSE LET storageAgents == listAgents(file, order)
           agents == [ i \in 1..Len(storageAgents) |->
                         LocalAgent(storageAgents[i], Len(storageAgents), t) ]
       IN  [ agents |-> agents,
             source |-> [name |-> "local-storage", type |-> "local",
                         agents_found |-> Len(agents)] ]

\* [...new Set(domains)]: the first of equal elements stays
RECURSIVE Unique(_)
Unique(array) ==
  IF array = <<>> THEN <<>>
  ELSE LET front == Unique(SubSeq(array, 1, Len(array) - 1))
           last  == array[Len(array)]
       IN  IF Includes(front, last) THEN front ELSE Append(front, last)

\* discovery.ts 440-452
extractDomainsFromQuery(query) ==
  Unique((IF query.organization # "" THEN <<query.organization>> ELSE <<>>)
         \o <<"ansregistry.org", "demo.ansregistry">>)

\* discovery.ts 235-237
WellKnownUrl(domain) ==
  IF startsWith(Spell[domain], <<"h","t","t","p">>)
    THEN <<domain, "/.well-known/agent.json">>
    ELSE <<"https://", domain, "/.well-known/agent.json">>

\* discovery.ts 252-274: one entry of a fetched document as a DiscoveredAgent
WellKnownAgent(agent, domain, t) ==
  [ agent_uri    |-> agent.agent_uri,
    status       |-> IF Has(agent, "status") THEN agent.status ELSE "active",
    capabilities |-> IF Has(agent, "capabilities") THEN agent.capabilities ELSE <<>>,
    resolution   |-> [ ttl |-> 300, cached |-> FALSE, resolver |-> "well-known",
                       resolved_at |-> t, method |-> "well-known",
                       source |-> WellKnownUrl(domain) ],
    type         |-> IF Has(agent, "type") THEN agent.type ELSE "persistent",
    discovery_source |-> [ name |-> <<"well-known-", domain>>, type |-> "wellknown",
                           url |-> WellKnownUrl(domain), agents_found |-> 0 ] ]
  @@ Field(agent, "endpoint")
  @@ Field(agent, "metadata")

\* discovery.ts 233-278: the fetch of one domain; every failure is an empty
\* list
FetchDomain(domain, outcome, t) ==
  IF outcome.kind = "document"
    THEN [i \in 1..Len(outcome.agents) |-> WellKnownAgent(outcome.agents[i], domain, t)]
    ELSE <<>>

\* the source entry counting the domains asked in the place of the agents
discoverFromWellKnown_countsDomains(query, outcomes, t) ==
  LET domains == extractDomainsFromQuery(query)
      results == [i \in 1..Len(domains) |-> FetchDomain(domains[i], outcomes[i], t)]
      agents  == flat(results)
  IN  [ agents |-> agents,
        source |-> [name |-> "well-known", type |-> "wellknown",
                    agents_found |-> Len(domains)] ]

\* discovery.ts 221-297; outcomes[i] is what the fetch of the i-th domain
\* ended in
discoverFromWellKnown(query, outcomes, t) ==
  LET domains == extractDomainsFromQuery(query)
      results == [i \in 1..Len(domains) |-> FetchDomain(domains[i], outcomes[i], t)]
      agents  == flat(results)
  IN  [ agents |-> agents,
        source |-> [name |-> "well-known", type |-> "wellknown",
                    agents_found |-> Len(agents)] ]

\* discovery.ts 302-321
discoverFromGlobalRegistry ==
  [ agents |-> <<>>,
    source |-> [ name |-> "global-registry", type |-> "global",
                 url |-> "https://registry.ansregistry.org", agents_found |-> 0,
                 error |-> "Global registry not yet implemented" ] ]

\* discovery.ts 64-77 with inactive agents let through by default
SearchQuery_inactiveToo(query) ==
  [ capabilities      |-> IF Has(query, "capabilities") THEN query.capabilities ELSE <<>>,
    organization      |-> IF Has(query, "organization") THEN query.organization ELSE "",
    status            |-> IF Has(query, "status") THEN query.status ELSE <<"active", "inactive">>,
    discovery_level   |-> IF Has(query, "discovery_level") THEN query.discovery_level
                          ELSE <<"public", "internal", "private">>,
    health_status     |-> IF Has(query, "health_status") THEN query.health_status
                          ELSE <<"healthy", "degraded">>,
    include_local     |-> IF Has(query, "include_local") THEN query.include_local # FALSE
                          ELSE TRUE,
    include_wellknown |-> IF Has(query, "include_wellknown") THEN query.include_wellknown
                          ELSE FALSE,
    include_global    |-> IF Has(query, "include_global") THEN query.include_global
                          ELSE FALSE,
    limit             |-> IF Has(query, "limit") THEN OrElse(query.limit, 100) ELSE 100,
    search            |-> IF Has(query, "search") THEN query.search ELSE "",
    type              |-> IF Has(query, "type") THEN query.type
                          ELSE <<"persistent", "ephemeral", "system", "personal">>,
    min_health_score  |-> IF Has(query, "min_health_score") THEN query.min_health_score
                          ELSE 0 ]

\* discovery.ts 64-77: the query with its defaults.  x || d takes d for
\* undefined, '' and 0, and keeps an empty array.
SearchQuery(query) ==
  [ capabilities      |-> IF Has(query, "capabilities") THEN query.capabilities ELSE <<>>,
    organization      |-> IF Has(query, "organization") THEN query.organization ELSE "",
    status            |-> IF Has(query, "status") THEN query.status ELSE <<"active">>,
    discovery_level   |-> IF Has(query, "discovery_level") THEN query.discovery_level
                          ELSE <<"public", "internal", "private">>,
    health_status     |-> IF Has(query, "health_status") THEN query.health_status
                          ELSE <<"healthy", "degraded">>,
    include_local     |-> IF Has(query, "include_local") THEN query.include_local # FALSE
                          ELSE TRUE,
    include_wellknown |-> IF Has(query, "include_wellknown") THEN query.include_wellknown
                          ELSE FALSE,
    include_global    |-> IF Has(query, "include_global") THEN query.include_global
                          ELSE FALSE,
    limit             |-> IF Has(query, "limit") THEN OrElse(query.limit, 100) ELSE 100,
    search            |-> IF Has(query, "search") THEN query.search ELSE "",
    type              |-> IF Has(query, "type") THEN query.type
                          ELSE <<"persistent", "ephemeral", "system", "personal">>,
    min_health_score  |-> IF Has(query, "min_health_score") THEN query.min_health_score
                          ELSE 0 ]

\* discovery.ts 331: sourceTypePriority[type] || 99
sourceTypePriority(type) ==
  CASE type = "local"     -> 1
    [] type = "wellknown" -> 2
    [] type = "global"    -> 3
    [] type = "cache"     -> 4
    [] OTHER              -> 99

Priorities == <<1, 2, 3, 4, 99>>

\* the comparison of the sort the other way round (bPriority - aPriority)
SortByPriority_lowestLast(agents) ==
  flat([ p \in 1..Len(Priorities) |->
           Filter(agents,
                  LAMBDA a : sourceTypePriority(a.discovery_source.type)
                               = Priorities[Len(Priorities) + 1 - p]) ])

\* discovery.ts 333-337: Array.prototype.sort is stable, so the agents of one
\* priority keep their order and the priorities follow one another
SortByPriority(agents) ==
  flat([ p \in 1..Len(Priorities) |->
           Filter(agents,
                  LAMBDA a : sourceTypePriority(a.discovery_source.type) = Priorities[p]) ])

\* a Map that every agent is set in: the last record of an agent_uri stays,
\* at the place of the first
KeepFirst_lastWins(agents) ==
  LET first == SelectSeq([i \in 1..Len(agents) |-> i],
                         LAMBDA i : \A j \in 1..(i - 1) :
                                      agents[j].agent_uri # agents[i].agent_uri)
      Last(i) == CHOOSE j \in i..Len(agents) :
                   /\ agents[j].agent_uri = agents[i].agent_uri
                   /\ \A k \in (j + 1)..Len(agents) :
                        agents[k].agent_uri # agents[i].agent_uri
  IN  [k \in 1..Len(first) |-> agents[Last(first[k])]]

\* discovery.ts 339-345: the Map keeps the first record of each agent_uri, in
\* the order the keys were set
KeepFirst(agents) ==
  LET first == SelectSeq([i \in 1..Len(agents) |-> i],
                         LAMBDA i : \A j \in 1..(i - 1) :
                                      agents[j].agent_uri # agents[i].agent_uri)
  IN  [k \in 1..Len(first) |-> agents[first[k]]]

\* discovery.ts 327-345
Deduplicate(agents) == KeepFirst(SortByPriority(agents))

\* agent.metadata?.key is not undefined
HasMetadata(agent, key) == Has(agent, "metadata") /\ Has(agent.metadata, key)

\* discovery.ts 358-362 with some in the place of every
HasCapabilities_some(agent, query) ==
  Len(query.capabilities) > 0
    => \E i \in 1..Len(query.capabilities) :
         Includes(agent.capabilities, query.capabilities[i])

\* discovery.ts 358-362
HasCapabilities(agent, query) ==
  Len(query.capabilities) > 0
    => \A i \in 1..Len(query.capabilities) :
         Includes(agent.capabilities, query.capabilities[i])

\* discovery.ts 370-374
searchableText(agent) ==
  toLowerCase(
    join(<<agent.agent_uri,
           IF HasMetadata(agent, "description") THEN Spell[agent.metadata.description]
           ELSE <<>>>>
         \o [i \in 1..Len(agent.capabilities) |-> Spell[agent.capabilities[i]]],
         " "))

\* discovery.ts 368-377
MatchesSearch(agent, query) ==
  query.search # ""
    => includes(searchableText(agent), toLowerCase(Spell[query.search]))

\* discovery.ts 347-379: the test of the filter
Passes(agent, query) ==
  /\ Includes(query.status, agent.status)
  /\ ~ ( /\ HasMetadata(agent, "discovery_level")
         /\ agent.metadata.discovery_level # ""
         /\ ~Includes(query.discovery_level, agent.metadata.discovery_level) )
  /\ ~ (agent.type # "" /\ ~Includes(query.type, agent.type))
  /\ HasCapabilities(agent, query)
  /\ ~ ( /\ query.organization # ""
         /\ ~ ( /\ HasMetadata(agent, "organization")
                /\ agent.metadata.organization = query.organization ) )
  /\ MatchesSearch(agent, query)

\* the filter applied to every gathered record, the deduplication to what it
\* kept
filterAndDeduplicateAgents_filterFirst(agents, query) ==
  Deduplicate(Filter(agents, LAMBDA agent : Passes(agent, query)))

\* discovery.ts 325-380
filterAndDeduplicateAgents(agents, query) ==
  Filter(Deduplicate(agents), LAMBDA agent : Passes(agent, query))

\* discovery.ts 386-407; uptime_percentage in tenths of a percent
performHealthChecks(agents) ==
  [ agents |-> [ i \in 1..Len(agents) |->
                   [ health |-> [ status |-> "healthy", score |-> 95, error_count |-> 0,
                                  uptime_percentage |-> 995 ] ] @@ agents[i] ],
    checked_count |-> Len(agents) ]

\* discovery.ts 415-427 with > for >= in the score filter
FilterByHealth_above(agents, query) ==
  LET byStatus ==
        IF Len(query.health_status) > 0
          THEN Filter(agents, LAMBDA a : ~Has(a, "health")
                                         \/ Includes(query.health_status, a.health.status))
          ELSE agents
  IN  IF query.min_health_score > 0
        THEN Filter(byStatus, LAMBDA a : ~Has(a, "health")
                                         \/ a.health.score > query.min_health_score)
        ELSE byStatus

\* discovery.ts 415-427: the health filters
FilterByHealth(agents, query) ==
  LET byStatus ==
        IF Len(query.health_status) > 0
          THEN Filter(agents, LAMBDA a : ~Has(a, "health")
                                         \/ Includes(query.health_status, a.health.status))
          ELSE agents
  IN  IF query.min_health_score > 0
        THEN Filter(byStatus, LAMBDA a : ~Has(a, "health")
                                         \/ a.health.score >= query.min_health_score)
        ELSE byStatus

\* Array.prototype.slice(0, n) for n > 0
slice(array, n) == SubSeq(array, 1, IF n < Len(array) THEN n ELSE Len(array))

\* discovery.ts 412-435
applyFinalFilters(agents, query) ==
  LET filtered == FilterByHealth(agents, query)
  IN  IF query.limit > 0 THEN slice(filtered, query.limit) ELSE filtered

\* { ...agent, discovery_source: undefined }
WithoutSource(agent) == [k \in DOMAIN agent \ {"discovery_source"} |-> agent[k]]

\* finalAgents.map(agent => ({ ...agent, discovery_source: undefined }))
WithoutSources(agents) == [i \in 1..Len(agents) |-> WithoutSource(agents[i])]

\* s.agents_found of the first source of the type, || 0
FoundBy(sources, type) ==
  LET of == Filter(sources, LAMBDA s : s.type = type)
  IN  IF of = <<>> THEN 0 ELSE of[1].agents_found

\* discovery.ts 80-98: the sources whose lookup has been called when
\* discoverAgents waits for the fetches of the well-known step: the local
\* one, awaited before the well-known step is entered, and the well-known
\* one; the global one is called after the await of line 98
Begun(searchQuery) ==
  (IF searchQuery.include_local THEN <<"local">> ELSE <<>>)
  \o (IF searchQuery.include_wellknown THEN <<"wellknown">> ELSE <<>>)

\* discovery.ts 79-93: the local step
GatherLocal_noCatch(searchQuery, local) ==
  IF ~searchQuery.include_local
    THEN [thrown |-> FALSE, sources |-> <<>>, allAgents |-> <<>>]
  ELSE IF IsThrown(local)
    THEN [thrown |-> TRUE, sources |-> <<>>, allAgents |-> <<>>]
  ELSE [thrown |-> FALSE, sources |-> <<local.source>>, allAgents |-> local.agents]

\* discovery.ts 79-93: the local step; `local` is what discoverFromLocal
\* ended in
GatherLocal(searchQuery, local) ==
  IF ~searchQuery.include_local
    THEN [thrown |-> FALSE, sources |-> <<>>, allAgents |-> <<>>]
  ELSE IF IsThrown(local)
    THEN [ thrown |-> FALSE,
           sources |-> << [ name |-> "local-storage", type |-> "local",
                            agents_found |-> 0,
                            error |-> "Local storage discovery failed" ] >>,
           allAgents |-> <<>> ]
  ELSE [thrown |-> FALSE, sources |-> <<local.source>>, allAgents |-> local.agents]

\* no call of discoverAgents yet
NoDiscovery == [state |-> "none"]

\* discovery.ts 58-93: discoverAgents up to the end of the local step.  The
\* call stays suspended at its next await (the fetches of the well-known
\* step when there is one).  A call shares nothing with the call before it,
\* so one is followed.
DiscoverBegin(query, order, broken) ==
  /\ discovery.state = "none"
  /\ LET searchQuery == SearchQuery(query)
         local == discoverFromLocal(agentsFile, order, broken, now)
         g == GatherLocal(searchQuery, local)
     IN  discovery' =
           IF g.thrown
             THEN [ state |-> "thrown", query |-> query, searchQuery |-> searchQuery,
                    broken |-> broken ]
             ELSE [ state |-> "pending", query |-> query, searchQuery |-> searchQuery,
                    broken |-> broken, sources |-> g.sources, allAgents |-> g.allAgents,
                    begun |-> Begun(searchQuery) ]
  /\ UNCHANGED <<validation, Health, Config, agentsFile, cache, now, calls, batch, started, configOps,
                 discoveryConfig>>

\* discovery.ts 95-159: the rest of discoverAgents; outcomes[i] is what the
\* fetch of the i-th domain ended in.  gathered, deduplicated, filtered,
\* checked and passed record the stages the result went through.
DiscoverFinish(outcomes) ==
  /\ discovery.state = "pending"
  /\ LET searchQuery == discovery.searchQuery
         wellKnown == discoverFromWellKnown(searchQuery, outcomes, now)
         global    == discoverFromGlobalRegistry
         sources   ==
           discovery.sources
           \o (IF searchQuery.include_wellknown THEN <<wellKnown.source>> ELSE <<>>)
           \o (IF searchQuery.include_global THEN <<global.source>> ELSE <<>>)
         allAgents ==
           discovery.allAgents
           \o (IF searchQuery.include_wellknown THEN wellKnown.agents ELSE <<>>)
           \o (IF searchQuery.include_global THEN global.agents ELSE <<>>)
         filteredAgents == filterAndDeduplicateAgents(allAgents, searchQuery)
         enabled == discoveryConfig.health_check_enabled /\ Len(filteredAgents) > 0
         healthCheckedAgents ==
           IF enabled THEN performHealthChecks(filteredAgents).agents ELSE filteredAgents
         finalAgents == applyFinalFilters(healthCheckedAgents, searchQuery)
     IN  discovery' =
           [ state        |-> "returned",
             query        |-> discovery.query,
             searchQuery  |-> searchQuery,
             broken       |-> discovery.broken,
             outcomes     |-> outcomes,
             health_check_enabled |-> discoveryConfig.health_check_enabled,
             gathered     |-> allAgents,
             deduplicated |-> Deduplicate(allAgents),
             filtered     |-> filteredAgents,
             passed       |-> FilterByHealth(healthCheckedAgents, searchQuery),
             result       |->
               [ agents      |-> WithoutSources(finalAgents),
                 sources     |-> sources,
                 total_found |-> Len(allAgents),
                 metadata    |->
                   [ local_agents     |-> FoundBy(sources, "local"),
                     wellknown_agents |-> FoundBy(sources, "wellknown"),
                     global_agents    |-> FoundBy(sources, "global"),
                     filtered_out     |-> Len(allAgents) - Len(finalAgents),
                     health_checked   |-> IF enabled THEN Len(filteredAgents) ELSE 0 ] ] ]
  /\ UNCHANGED <<validation, Health, Config, agentsFile, cache, now, calls, batch, started, configOps,
                 discoveryConfig>>

\* discovery.ts 481-488: the query getHealthyAgents hands to discoverAgents;
\* the three fields written after ...options replace the caller's
getHealthyAgents(options) ==
  [ health_status |-> <<"healthy">>, min_health_score |-> 80, include_local |-> TRUE ]
  @@ options

(***************************************************************************)
(* The health probe  (health.ts)                                           *)
(***************************************************************************)
\* health.ts 30-34: DEFAULT_HEALTH_CONFIG.health_endpoints
HEALTH_ENDPOINTS ==
  << [path |-> "/health", method |-> "GET", expected_status |-> {200}],
     [path |-> "/status", method |-> "GET", expected_status |-> {200}],
     [path |-> "/", method |-> "HEAD", expected_status |-> {200, 204}] >>

\* health.ts 112-116: the request to the endpoint itself
MAIN_ENDPOINT == [path |-> "", method |-> "HEAD", expected_status |-> {200, 204, 405}]

\* What one request of the probe can end in: a response with a status after
\* `time` ms, or fetch rejecting (the abort after check_timeout included).
Response(status, time) == [kind |-> "response", status |-> status, time |-> time]

Rejected(time) == [kind |-> "rejected", time |-> time]

\* health.ts 257-298: never throws
performHealthCheck(response, endpoint) ==
  IF response.kind = "response"
    THEN [ success |-> response.status \in endpoint.expected_status,
           status_code |-> response.status, response_time |-> response.time ]
    ELSE [success |-> FALSE, response_time |-> response.time]

\* Math.min / Math.max
Min(a, b) == IF a < b THEN a ELSE b

Max(a, b) == IF a > b THEN a ELSE b

\* health.ts 303-361 with the smaller penalty from 2000 ms on
buildHealthStatus_from2000(result, errorCount, totalResponseTime) ==
  IF IsMiss(result) \/ ~result.success
    THEN [ status |-> "unhealthy", score |-> 0, response_time_ms |-> totalResponseTime,
           error_count |-> errorCount, uptime_percentage |-> 0,
           details |-> [ endpoint_reachable |-> FALSE, response_time_ok |-> FALSE,
                         error_rate_ok |-> FALSE ] ]
    ELSE LET score == 100
                      - (IF result.response_time > 5000 THEN 50
                         ELSE IF result.response_time >= 2000 THEN 25 ELSE 0)
                      - Min(errorCount * 10, 40)
         IN  [ status |-> IF score >= 80 THEN "healthy"
                          ELSE IF score >= 50 THEN "degraded" ELSE "unhealthy",
               score |-> Max(0, score),
               response_time_ms |-> result.response_time,
               error_count |-> errorCount,
               uptime_percentage |-> IF score >= 50 THEN 995 ELSE 850,
               details |-> [ endpoint_reachable |-> TRUE,
                             response_time_ok |-> result.response_time <= 2000,
                             error_rate_ok |-> errorCount <= 1,
                             capacity_ok |-> TRUE ] ]

\* health.ts 303-361; result is Miss for null; uptime_percentage in tenths of
\* a percent
buildHealthStatus(result, errorCount, totalResponseTime) ==
  IF IsMiss(result) \/ ~result.success
    THEN [ status |-> "unhealthy", score |-> 0, response_time_ms |-> totalResponseTime,
           error_count |-> errorCount, uptime_percentage |-> 0,
           details |-> [ endpoint_reachable |-> FALSE, response_time_ok |-> FALSE,
                         error_rate_ok |-> FALSE ] ]
    ELSE LET score == 100
                      - (IF result.response_time > 5000 THEN 50
                         ELSE IF result.response_time > 2000 THEN 25 ELSE 0)
                      - Min(errorCount * 10, 40)
         IN  [ status |-> IF score >= 80 THEN "healthy"
                          ELSE IF score >= 50 THEN "degraded" ELSE "unhealthy",
               score |-> Max(0, score),
               response_time_ms |-> result.response_time,
               error_count |-> errorCount,
               uptime_percentage |-> IF score >= 50 THEN 995 ELSE 850,
               details |-> [ endpoint_reachable |-> TRUE,
                             response_time_ok |-> result.response_time <= 2000,
                             error_rate_ok |-> errorCount <= 1,
                             capacity_ok |-> TRUE ] ]

\* health.ts 95-107: the endpoints from the i-th on; responses[i] is what the
\* request to the i-th ended in
RECURSIVE TryEndpoints(_, _, _)
TryEndpoints(i, responses, errorCount) ==
  IF i > Len(HEALTH_ENDPOINTS) THEN [bestResult |-> Miss, errorCount |-> errorCount]
  ELSE LET result == performHealthCheck(responses[i], HEALTH_ENDPOINTS[i])
       IN  IF result.success THEN [bestResult |-> result, errorCount |-> errorCount]
           ELSE TryEndpoints(i + 1, responses, errorCount + 1)

\* the time the requests took together
RECURSIVE Elapsed(_, _)
Elapsed(responses, n) == IF n = 0 THEN 0 ELSE responses[n].time + Elapsed(responses, n - 1)

\* health.ts 83-132; cachedHealth is what healthCache.get returned (Miss for
\* null), responses[4] what the request to the endpoint itself ended in
checkAgentHealth(cachedHealth, responses) ==
  IF ~IsMiss(cachedHealth) THEN cachedHealth
  ELSE LET tried == TryEndpoints(1, responses, 0)
           main  == performHealthCheck(responses[Len(HEALTH_ENDPOINTS) + 1], MAIN_ENDPOINT)
           bestResult ==
             IF ~IsMiss(tried.bestResult) THEN tried.bestResult
             ELSE IF main.success THEN main ELSE Miss
           requests ==
             IF ~IsMiss(tried.bestResult) THEN tried.errorCount + 1
             ELSE Len(HEALTH_ENDPOINTS) + 1
       IN  buildHealthStatus(bestResult, tried.errorCount, Elapsed(responses, requests))

(***************************************************************************)
(* The health checker's state  (health.ts)                                 *)
(*                                                                         *)
(* A call of checkAgentHealth is suspended at each of its requests.  What  *)
(* a request ends in is an input of the step that resumes the call; the    *)
(* time it took is the time that passed on the clock.                      *)
(***************************************************************************)
\* health.ts 25-35
DEFAULT_HEALTH_CONFIG ==
  [ check_timeout |-> 5000, concurrent_checks |-> 5, retry_attempts |-> 3,
    cache_duration |-> 60000, health_endpoints |-> HEALTH_ENDPOINTS ]

\* everything but the health checker's state
NotHealth ==
  <<Config, agentsFile, cache, now, calls, batch, started, configOps, Discovery,
    validation>>

\* health.ts 76-78
configureHealth(config) ==
  /\ healthConfig' = config @@ healthConfig
  /\ healthConfig' # healthConfig
  /\ UNCHANGED <<NotHealth, healthCache, probes, healthBatch>>

\* health.ts 43-48: HealthCache.set at time t; set_at records t
HealthCacheSet(map, agentUri, health, t) ==
  Put(map, agentUri,
      [health |-> health, expires |-> t + healthConfig.cache_duration, set_at |-> t])

\* health.ts 50-60 without the expiry
HealthCacheGet_noExpiry(map, agentUri, t) ==
  IF ~Has(map, agentUri) THEN [health |-> Miss, cache |-> map]
  ELSE [health |-> map[agentUri].health, cache |-> map]

\* health.ts 50-60: HealthCache.get at time t; health is what it returns (Miss
\* for null) and cache the map it leaves
HealthCacheGet(map, agentUri, t) ==
  IF ~Has(map, agentUri) THEN [health |-> Miss, cache |-> map]
  ELSE IF t > map[agentUri].expires
    THEN [health |-> Miss, cache |-> Remove(map, agentUri)]
  ELSE [health |-> map[agentUri].health, cache |-> map]

\* health.ts 183-185
clearHealthCache ==
  /\ healthCache # Empty
  /\ healthCache' = Empty
  /\ UNCHANGED <<NotHealth, healthConfig, probes, healthBatch>>

\* null, where an agent is expected
Null == [null |-> TRUE]

\* health.ts 262, 268-269: the request performHealthCheck sends
Request(endpoint) == [path |-> endpoint.path, method |-> endpoint.method]

\* the endpoint the k-th request of the call goes to: the k-th of the list the
\* loop runs over, then the agent's own (health.ts 95, 111-115)
EndpointOf(probe, k) ==
  IF k <= Len(probe.endpoints) THEN probe.endpoints[k] ELSE MAIN_ENDPOINT

\* health.ts 83-97: checkAgentHealth at time t up to its first await;
\* found is the cache entry of the agent at the call (Miss for none),
\* cachedHealth what healthCache.get returned.  Reading agent_uri of null
\* throws.
BeginProbe(agent, found, cachedHealth, t) ==
  IF agent = Null
    THEN [agent |-> agent, pc |-> "thrown", requests |-> <<>>, responses |-> <<>>]
  ELSE IF ~IsMiss(cachedHealth)
    THEN [ agent |-> agent, pc |-> "done", hit |-> TRUE, found |-> found,
           startTime |-> t, requests |-> <<>>, responses |-> <<>>,
           health |-> cachedHealth ]
  ELSE LET endpoints == healthConfig.health_endpoints
       IN  [ agent |-> agent, pc |-> "waiting", hit |-> FALSE, found |-> found,
             startTime |-> t, requestStart |-> t, endpoints |-> endpoints,
             errorCount |-> 0, responses |-> <<>>,
             requests |-> << Request(IF endpoints = <<>> THEN MAIN_ENDPOINT
                                     ELSE endpoints[1]) >> ]

\* health.ts 98-101 without the break
Stops_afterAll(result, fallback) == fallback

\* health.ts 98-101, 117-119: no request follows a success (break) or the
\* request to the endpoint itself
Stops(result, fallback) == result.success \/ fallback

\* health.ts 97-131: checkAgentHealth from the end of its pending request, at
\* time t, to its next await or its return; answer is what the request ended
\* in
ContinueProbe(probe, answer, t) ==
  LET k          == Len(probe.requests)
      fallback   == k > Len(probe.endpoints)
      response   == IF answer.kind = "response"
                      THEN Response(answer.status, t - probe.requestStart)
                      ELSE Rejected(t - probe.requestStart)
      result     == performHealthCheck(response, EndpointOf(probe, k))
      responses  == Append(probe.responses, answer)
      errorCount == IF result.success \/ fallback THEN probe.errorCount
                    ELSE probe.errorCount + 1
  IN  IF Stops(result, fallback)
        THEN [ health |-> buildHealthStatus(IF result.success THEN result ELSE Miss,
                                            errorCount, t - probe.startTime),
               endTime |-> t ]
             @@ [probe EXCEPT !.pc = "done", !.responses = responses,
                              !.errorCount = errorCount]
        ELSE [probe EXCEPT !.responses = responses, !.errorCount = errorCount,
                           !.requestStart = t,
                           !.requests = Append(@, Request(EndpointOf(probe, k + 1)))]

\* no call of checkMultipleAgentsHealth
NoHealthBatch == [state |-> "none"]

\* health.ts 366-372 with chunks one longer
chunkArray_longer(array, chunkSize) ==
  [ c \in 1..((Len(array) + chunkSize) \div (chunkSize + 1)) |->
      SubSeq(array, (c - 1) * (chunkSize + 1) + 1, Min(c * (chunkSize + 1), Len(array))) ]

\* health.ts 366-372, when its loop ends
chunkArray(array, chunkSize) ==
  IF Len(array) = 0 THEN <<>>
  ELSE [ c \in 1..((Len(array) + chunkSize - 1) \div chunkSize) |->
           SubSeq(array, (c - 1) * chunkSize + 1, Min(c * chunkSize, Len(array))) ]

\* health.ts 368: i starts at 0 and grows by chunkSize, the loop going on
\* while i < array.length; with a chunkSize of 0 or less it never ends once
\* entered
chunkArrayLoops(array, chunkSize) == Len(array) > 0 /\ chunkSize <= 0

\* health.ts 147-161: the health of an agent whose check threw
UnhealthyOnError ==
  [ status |-> "unhealthy", score |-> 0, error_count |-> 1, uptime_percentage |-> 0,
    details |-> [ endpoint_reachable |-> FALSE, response_time_ok |-> FALSE,
                  error_rate_ok |-> FALSE ] ]

\* { ...agent, health }; spreading null adds nothing
WithHealth(agent, health) ==
  [health |-> health] @@ (IF agent = Null THEN Empty ELSE agent)

\* health.ts 142-161: what the callback of chunk.map returns for the agent
\* whose call of checkAgentHealth is probe
ChunkResult(agent, probe) ==
  IF probe.pc = "thrown" THEN WithHealth(agent, UnhealthyOnError)
  ELSE WithHealth(agent, probe.health)

\* health.ts 164 with the agents whose check threw left out
ChunkResults_withoutThrown(made, chunk, first) ==
  LET all == [i \in 1..Len(chunk) |-> ChunkResult(chunk[i], made[first + i])]
  IN  SelectSeq(all, LAMBDA r : r.health # UnhealthyOnError)

\* health.ts 164: Promise.all(chunkPromises), the calls of the chunk being
\* made[first + 1 ..]
ChunkResults(made, chunk, first) ==
  [i \in 1..Len(chunk) |-> ChunkResult(chunk[i], made[first + i])]

\* health.ts 142-144: the calls of checkAgentHealth for the agents of the
\* chunk from the i-th on, made one after the other at time t; h is the cache
\* and the calls so far
RECURSIVE StartChunk(_, _, _, _)
StartChunk(h, chunk, i, t) ==
  IF i > Len(chunk) THEN h
  ELSE LET agent == chunk[i]
           found == IF agent # Null /\ Has(h.cache, agent.agent_uri)
                      THEN h.cache[agent.agent_uri] ELSE Miss
           got   == IF agent = Null THEN [health |-> Miss, cache |-> h.cache]
                    ELSE HealthCacheGet(h.cache, agent.agent_uri, t)
       IN  StartChunk([ cache |-> got.cache,
                        probes |-> Append(h.probes,
                                          BeginProbe(agent, found, got.health, t)) ],
                      chunk, i + 1, t)

\* health.ts 141-170: checkMultipleAgentsHealth.  s is the cache, the calls
\* of checkAgentHealth and the call itself: its agents, the chunk it is at
\* (c), the number of calls of checkAgentHealth made before it (base) and
\* before that chunk (first), and its results so far.  RunChunks is the loop from the start of chunk c to
\* the next await that suspends it; Settle is the end of that await: when no
\* call of the chunk is pending its results are pushed and the loop goes on.
RECURSIVE RunChunks(_, _)
RECURSIVE Settle(_, _)
RunChunks(s, t) ==
  IF s.batch.c > Len(s.batch.chunks)
    THEN [s EXCEPT !.batch.state = "returned"]
    ELSE LET h == StartChunk([cache |-> s.cache, probes |-> s.probes],
                             s.batch.chunks[s.batch.c], 1, t)
         IN  Settle([ cache |-> h.cache, probes |-> h.probes,
                      batch |-> [s.batch EXCEPT !.first = Len(s.probes)] ], t)

Settle(s, t) ==
  LET chunk == s.batch.chunks[s.batch.c]
  IN  IF \E i \in 1..Len(chunk) : s.probes[s.batch.first + i].pc = "waiting"
        THEN s
        ELSE RunChunks([s EXCEPT
                          !.batch.results = @ \o ChunkResults(s.probes, chunk, s.batch.first),
                          !.batch.c = @ + 1], t)

\* calls of checkAgentHealth followed
MaxProbes == 2

\* checkAgentHealth(agent), called on its own
CheckAgentHealth(agent) ==
  /\ Len(probes) < MaxProbes
  /\ healthBatch.state = "none"
  /\ LET found == IF agent # Null /\ Has(healthCache, agent.agent_uri)
                    THEN healthCache[agent.agent_uri] ELSE Miss
         got   == IF agent = Null THEN [health |-> Miss, cache |-> healthCache]
                  ELSE HealthCacheGet(healthCache, agent.agent_uri, now)
     IN  /\ probes' = Append(probes, BeginProbe(agent, found, got.health, now))
         /\ healthCache' = got.cache
  /\ UNCHANGED <<NotHealth, healthConfig, healthBatch>>

\* a response to the pending request of the p-th call of checkAgentHealth
\* arrives, or the request fails; a call that returns caches its result
\* (health.ts 128), and a call made by checkMultipleAgentsHealth lets that
\* one go on when it was the last of its chunk
ProbeResponse(p, answer) ==
  /\ p \in 1..Len(probes)
  /\ probes[p].pc = "waiting"
  /\ LET next   == ContinueProbe(probes[p], answer, now)
         cached == IF next.pc = "done"
                     THEN HealthCacheSet(healthCache, next.agent.agent_uri, next.health, now)
                     ELSE healthCache
         s      == [cache |-> cached, probes |-> [probes EXCEPT ![p] = next],
                    batch |-> healthBatch]
         after  == IF healthBatch.state = "running" /\ p > healthBatch.first
                     THEN Settle(s, now) ELSE s
     IN  /\ healthCache' = after.cache
         /\ probes' = after.probes
         /\ healthBatch' = after.batch
  /\ UNCHANGED <<NotHealth, healthConfig>>

\* agents given to checkMultipleAgentsHealth at most
MaxHealthBatch == 3

\* checkMultipleAgentsHealth(agents) up to its first await, or to its return
\* when nothing has to be requested.  When the loop of chunkArray does not
\* end the call stays in it (state "looping"): the loop has no await, so
\* nothing else runs either.
CheckMultipleAgentsHealth(agents) ==
  /\ healthBatch.state = "none"
  /\ LET size == healthConfig.concurrent_checks
     IN  IF chunkArrayLoops(agents, size)
           THEN /\ healthBatch' = [ state |-> "looping", agents |-> agents,
                                    size |-> size, base |-> Len(probes) ]
                /\ UNCHANGED <<healthCache, probes>>
           ELSE LET s == RunChunks([ cache |-> healthCache, probes |-> probes,
                                     batch |-> [ state |-> "running", agents |-> agents,
                                                 size |-> size, base |-> Len(probes),
                                                 chunks |-> chunkArray(agents, size),
                                                 c |-> 1, first |-> Len(probes),
                                                 results |-> <<>> ] ], now)
                IN  /\ healthCache' = s.cache
                    /\ probes' = s.probes
                    /\ healthBatch' = s.batch
  /\ UNCHANGED <<NotHealth, healthConfig>>

(***************************************************************************)
(* Inputs of discovery                                                     *)
(***************************************************************************)
\* bodies of POST /api/agents
PostBodies ==
  { [ agent_uri |-> URI_hello, endpoint |-> "https://local.example.com/hello",
      capabilities |-> <<"chat", "search">>,
      metadata |-> [ description |-> "Greeter",
                     tags |-> <<"team:support", "org:acme.example">>,
                     discovery_level |-> "public" ] ],
    [ agent_uri |-> URI_hello, endpoint |-> "https://local.example.com/hello-old",
      status |-> "inactive", metadata |-> [discovery_level |-> "internal"] ],
    [ agent_uri |-> URI_hr, endpoint |-> "https://down.example.com/hr",
      status |-> "maintenance", capabilities |-> <<"chat">> ] }

\* the documents the domains serve
DocumentMain ==
  << [ agent_uri |-> URI_hello, endpoint |-> "https://wk.example.com/hello",
       capabilities |-> <<"chat">>,
       metadata |-> [ description |-> "Help desk", organization |-> "acme.example",
                      discovery_level |-> "public" ] ],
     [ agent_uri |-> URI_support, endpoint |-> "https://down.example.com/support",
       status |-> "active", capabilities |-> <<"chat", "search">>, type |-> "system" ],
     [ agent_uri |-> URI_admin, endpoint |-> "https://wk.example.com/admin",
       status |-> "inactive", capabilities |-> <<"billing">>,
       metadata |-> [discovery_level |-> "private"] ] >>

DocumentDemo ==
  << [ agent_uri |-> URI_support, endpoint |-> "https://demo.example.com/support",
       capabilities |-> <<"search">> ],
     [ agent_uri |-> URI_hr, endpoint |-> "https://demo.example.com/hr",
       capabilities |-> <<"chat", "billing">>, type |-> "ephemeral" ] >>

DocumentOrganization ==
  << [ agent_uri |-> URI_itsupport, endpoint |-> "https://acme.example/itsupport",
       capabilities |-> <<"chat", "search">>,
       metadata |-> [organization |-> "acme.example"] ] >>

\* agent://bulk-d1d2d3, the agents of a long document
BulkURI(i) ==
  AgentScheme \o <<"b","u","l","k","-">>
  \o <<ToString((i \div 100) % 10), ToString((i \div 10) % 10), ToString(i % 10)>>

\* a document of one agent more than the default limit (discovery.ts 73)
BulkSize == 101

\* the retired agent://bulk-000 and BulkSize agents without a status
DocumentBulk ==
  << [ agent_uri |-> BulkURI(0), endpoint |-> "https://bulk.example/agent",
       status |-> "inactive", metadata |-> [organization |-> "bulk.example"] ] >>
  \o [ i \in 1..BulkSize |->
         [ agent_uri |-> BulkURI(i), endpoint |-> "https://bulk.example/agent",
           metadata |-> [organization |-> "bulk.example"] ] ]

\* what the fetch of a domain can end in
DomainOutcomes(domain) ==
  CASE domain = "ansregistry.org" ->
         { Outcome("timeout", <<>>), Outcome("http-error", <<>>),
           Outcome("no-agents", <<>>), Outcome("document", DocumentMain) }
    [] domain = "demo.ansregistry" ->
         { Outcome("network-error", <<>>), Outcome("malformed-json", <<>>),
           Outcome("document", DocumentDemo) }
    [] domain = "bulk.example" ->
         { Outcome("http-error", <<>>), Outcome("document", DocumentBulk) }
    [] OTHER ->
         { Outcome("timeout", <<>>), Outcome("document", DocumentOrganization) }

\* the outcomes of the fetches of a call: one for each domain of a
\* well-known step, none without one
RECURSIVE OutcomesOf(_)
OutcomesOf(domains) ==
  IF domains = <<>> THEN {<<>>}
  ELSE { <<first>> \o rest : first \in DomainOutcomes(Head(domains)),
                             rest \in OutcomesOf(Tail(domains)) }

FetchOutcomes(searchQuery) ==
  IF searchQuery.include_wellknown THEN OutcomesOf(extractDomainsFromQuery(searchQuery))
  ELSE {<<>>}

\* arguments of discoverAgents
Queries ==
  { Empty,
    [include_wellknown |-> TRUE],
    [include_wellknown |-> TRUE, include_global |-> TRUE,
     capabilities |-> <<"chat", "search">>],
    [include_wellknown |-> TRUE, status |-> <<"active", "inactive", "suspended">>,
     limit |-> 1],
    [include_wellknown |-> TRUE, limit |-> 0],
    [include_wellknown |-> TRUE, limit |-> -1, type |-> <<"persistent">>],
    [include_wellknown |-> TRUE, search |-> "CHAT"],
    [include_wellknown |-> TRUE, search |-> "chat search"],
    [include_local |-> FALSE, include_wellknown |-> TRUE,
     organization |-> "acme.example", discovery_level |-> <<"public">>],
    [include_wellknown |-> TRUE, health_status |-> <<"healthy">>,
     min_health_score |-> 80],
    [include_wellknown |-> TRUE, health_status |-> <<"degraded", "unhealthy">>],
    [include_wellknown |-> TRUE, min_health_score |-> 96],
    [include_wellknown |-> TRUE, health_status |-> <<>>, min_health_score |-> 95] }

\* arguments of discoverAgents that ask the domain of the long document
BulkQueries ==
  { [include_wellknown |-> TRUE, organization |-> "bulk.example"],
    [include_wellknown |-> TRUE, organization |-> "bulk.example", limit |-> 0],
    [include_wellknown |-> TRUE, organization |-> "bulk.example", limit |-> -1],
    [include_wellknown |-> TRUE, organization |-> "bulk.example", limit |-> 1],
    [include_local |-> FALSE, include_wellknown |-> TRUE, include_global |-> TRUE,
     organization |-> "bulk.example", limit |-> 0, health_status |-> <<>>] }

\* the endpoints that nothing answers at
DownEndpoints == {"https://down.example.com/hr", "https://down.example.com/support"}

\* what the four requests of the probe of an endpoint end in: no connection
\* for a down endpoint, 200 after 20 ms for the others
ProbeResponses(endpoint) ==
  IF endpoint \in DownEndpoints THEN [i \in 1..4 |-> Rejected(0)]
  ELSE [i \in 1..4 |-> Response(200, 20)]

\* arguments of getHealthyAgents
HealthyOptions ==
  { Empty,
    [include_wellknown |-> TRUE],
    [include_wellknown |-> TRUE, health_status |-> <<"degraded", "unhealthy">>,
     min_health_score |-> 0],
    [include_local |-> FALSE, include_wellknown |-> TRUE, status |-> <<"maintenance">>] }

\* agents given to checkAgentHealth and checkMultipleAgentsHealth
AgentHello ==
  [ agent_uri |-> URI_hello, endpoint |-> "https://hello.example.com/",
    status |-> "active", capabilities |-> <<"chat">> ]

AgentHr ==
  [ agent_uri |-> URI_hr, endpoint |-> "https://hr.example.com", status |-> "active",
    capabilities |-> <<>> ]

\* what a request of a health check can end in: a response with a status,
\* or no response (connection refused, abort after check_timeout)
Answer(status) == [kind |-> "response", status |-> status]

NoAnswer == [kind |-> "rejected"]

Answers == {Answer(200), Answer(204), Answer(405), NoAnswer}

\* a list of five health endpoints for configureHealth
LONG_ENDPOINTS ==
  << [path |-> "/healthz", method |-> "GET", expected_status |-> {200}],
     [path |-> "/health", method |-> "GET", expected_status |-> {200}],
     [path |-> "/status", method |-> "GET", expected_status |-> {200}],
     [path |-> "/ping", method |-> "GET", expected_status |-> {200, 204}],
     [path |-> "/", method |-> "HEAD", expected_status |-> {200, 204}] >>

\* the instants the clock of a health check is read at, besides LoadTime
ProbeInstants == {2000, 2001, 5000, 5001}

\* what a request ends in where only success and failure matter
PlainAnswers == {Answer(200), NoAnswer}

\* the instants the clock is read at around the expiry of a health cache
\* entry stored at LoadTime
ExpiryInstants == {60000, 60001}

\* arguments of checkMultipleAgentsHealth: null stands where the body of
\* POST /api/health/check had it
HealthBatchInputs == SeqsUpTo({AgentHello, AgentHr, Null}, MaxHealthBatch)

\* values of concurrent_checks given to configureHealth
ChunkSizes == {1, 2}

\* values of concurrent_checks around 0
SmallChunkSizes == {-1, 0, 1}

\* arrays given to checkMultipleAgentsHealth next to them
FewAgents == {<<>>, <<AgentHello>>, <<AgentHello, AgentHr>>, <<AgentHr, AgentHello, AgentHr>>}

\* arguments of configureDiscovery
DiscoveryConfigs == {[health_check_enabled |-> FALSE], [health_check_enabled |-> TRUE]}

\* Arguments of validateAgentURI: up to three labels after one of three
\* schemes, the labels well-formed, with a hyphen at an end, empty or with
\* another character; and uris of 253 and 254 characters
GrammarLabels ==
  { <<"a">>, <<"a","b">>, <<"A","9">>, <<"7">>, <<"a","-","b">>, <<"-","a">>,
    <<"a","-">>, <<>>, <<"a","_","b">> }

Schemes ==
  {AgentScheme, <<"h","t","t","p",":","/","/">>, <<"A","g","e","n","t",":","/","/">>}

LongURI(n) == AgentScheme \o [i \in 1..n |-> "a"] \o <<".","c","o","m">>

ValidationInputs ==
  { scheme \o join(labels, ".") : scheme \in Schemes, labels \in SeqsUpTo(GrammarLabels, 3) }
  \cup { <<>>, LongURI(MAX_URI_LENGTH - 12), LongURI(MAX_URI_LENGTH - 11) }

(***************************************************************************)
(* The specification                                                       *)
(***************************************************************************)
Init ==
  /\ useInternalAgents = TRUE
  /\ internalRegistry = Empty
  /\ internalWellKnownSources = <<>>
  /\ agentsFile = Empty
  /\ cache = Empty
  /\ now = LoadTime
  /\ calls = <<>>
  /\ batch = NoBatch
  /\ started = 0
  /\ configOps = 0
  /\ discoveryConfig = DEFAULT_CONFIG
  /\ discovery = NoDiscovery
  /\ healthConfig = DEFAULT_HEALTH_CONFIG
  /\ healthCache = Empty
  /\ probes = <<>>
  /\ healthBatch = NoHealthBatch
  /\ validation = NoValidation

Returning ==
  \E i \in 1..Len(calls) : \E outcome \in Outcomes(calls[i].uri) : FetchReturn(i, outcome)

Configuring ==
  \/ \E config \in Configs : configureInternalAgents(config)
  \/ \E uri \in RegisterURIs, agent \in RegisterAgents, broken \in BOOLEAN :
       registerInternalAgent(uri, agent, broken)
  \/ \E uri \in RegisterURIs, broken \in BOOLEAN : removePersistentAgent(uri, broken)
  \/ \E broken \in BOOLEAN : clearPersistentAgents(broken)

\* resolve under every configuration, the configuration changing also while
\* a call is suspended
Next ==
  \/ \E uri \in InputURIs, broken \in BOOLEAN : Resolve(uri, broken)
  \/ Returning
  \/ Configuring

Spec == Init /\ [][Next]_vars

\* resolveBatch: overlapping calls of resolve returning in any order.  A
\* batch shares nothing with the batch before it, so one is followed.
NextBatch ==
  \/ \E uris \in BatchInputs, broken \in BOOLEAN : ResolveBatch(uris, broken)
  \/ Returning
  \/ BatchReturn

SpecBatch == Init /\ [][NextBatch]_vars

\* resolveCached, overlapping calls included, with the clock moving and the
\* runtime table being replaced between calls (Spec covers the configuration
\* changing under a suspended call)
NextCache ==
  \/ \E uri \in InputURIs : ResolveCached(uri, FALSE)
  \/ Returning
  \/ /\ Suspended = {}
     /\ \E config \in {c \in Configs : "internalRegistry" \in DOMAIN c} :
          configureInternalAgents(config)
  \/ \E t \in Instants : Tick(t)

SpecCache == Init /\ [][NextCache]_vars

\* discoverAgents over every store that POST /api/agents builds, the store
\* and the configuration changing also while the call is suspended.  What
\* the call returned does not change any more, so nothing is followed after
\* it.
NextDiscovery ==
  \/ /\ discovery.state # "returned"
     /\ \E body \in PostBodies : PostAgent(body)
  \/ /\ discovery.state # "returned"
     /\ \E config \in DiscoveryConfigs : configureDiscovery(config)
  \/ \E query \in Queries, broken \in BOOLEAN :
       \E order \in Orders(DOMAIN agentsFile) : DiscoverBegin(query, order, broken)
  \/ \E options \in HealthyOptions, broken \in BOOLEAN :
       \E order \in Orders(DOMAIN agentsFile) :
         DiscoverBegin(getHealthyAgents(options), order, broken)
  \/ /\ discovery.state = "pending"
     /\ \E outcomes \in FetchOutcomes(discovery.searchQuery) : DiscoverFinish(outcomes)

SpecDiscovery == Init /\ [][NextDiscovery]_vars

\* discoverAgents when a domain serves more agents than the default limit,
\* the store being empty
NextBulk ==
  \/ /\ discovery.state # "returned"
     /\ \E config \in DiscoveryConfigs : configureDiscovery(config)
  \/ \E query \in BulkQueries, broken \in BOOLEAN : DiscoverBegin(query, <<>>, broken)
  \/ /\ discovery.state = "pending"
     /\ \E outcomes \in FetchOutcomes(discovery.searchQuery) : DiscoverFinish(outcomes)

SpecBulk == Init /\ [][NextBulk]_vars

\* A call of checkAgentHealth, after the list of endpoints was configured or
\* not; time passes while it waits.
NextProbe ==
  \/ /\ probes = <<>>
     /\ configureHealth([health_endpoints |-> LONG_ENDPOINTS])
  \/ /\ probes = <<>>
     /\ \E agent \in {AgentHello} : CheckAgentHealth(agent)
  \/ \E p \in 1..Len(probes), answer \in Answers : ProbeResponse(p, answer)
  \/ /\ \E p \in 1..Len(probes) : probes[p].pc = "waiting"
     /\ \E t \in ProbeInstants : Tick(t)

SpecProbe == Init /\ [][NextProbe]_vars

\* Calls of checkAgentHealth for two agents, one after the other, and calls
\* of resolveCached between and during them, with the clock moving
\* (SpecHealthBatch covers overlapping calls of checkAgentHealth).  The
\* health cache is cleared after the calls followed: a call after a clear
\* finds no entry, as the first call does.
NextHealthCache ==
  \/ /\ \A p \in 1..Len(probes) : probes[p].pc # "waiting"
     /\ \E agent \in {AgentHello, AgentHr} : CheckAgentHealth(agent)
  \/ \E p \in 1..Len(probes), answer \in PlainAnswers : ProbeResponse(p, answer)
  \/ /\ Len(probes) = MaxProbes
     /\ \A p \in 1..Len(probes) : probes[p].pc # "waiting"
     /\ clearHealthCache
  \/ ResolveCached(URI_hello, FALSE)
  \/ \E t \in ExpiryInstants : Tick(t)

SpecHealthCache == Init /\ [][NextHealthCache]_vars

\* A call of checkMultipleAgentsHealth with concurrent_checks at its default
\* or configured below it; the requests of the calls of checkAgentHealth it
\* makes end in any order.
NextHealthBatch ==
  \/ /\ healthBatch.state = "none"
     /\ \E n \in ChunkSizes : configureHealth([concurrent_checks |-> n])
  \/ \E agents \in HealthBatchInputs : CheckMultipleAgentsHealth(agents)
  \/ \E p \in 1..Len(probes), answer \in PlainAnswers : ProbeResponse(p, answer)

SpecHealthBatch == Init /\ [][NextHealthBatch]_vars

\* A call of checkMultipleAgentsHealth with concurrent_checks at its default
\* or configured to one of the numbers around 0, which configureHealth takes
\* as it takes any other
NextHealthSizes ==
  \/ /\ healthBatch.state = "none"
     /\ \E n \in SmallChunkSizes : configureHealth([concurrent_checks |-> n])
  \/ \E agents \in FewAgents : CheckMultipleAgentsHealth(agents)
  \/ \E p \in 1..Len(probes), answer \in PlainAnswers : ProbeResponse(p, answer)

SpecHealthSizes == Init /\ [][NextHealthSizes]_vars

\* no lookup is suspended
Idle == Suspended = {} /\ batch.state # "pending" /\ discovery.state # "pending"

\* The four lookups next to the calls that write the store: resolve,
\* resolveCached, resolveBatch and discoverAgents, one lookup at a time, over
\* the stores the management calls build, the store being written also while
\* a lookup is suspended.
NextStore ==
  \/ /\ Idle
     /\ Resolve(URI_hr, FALSE)
  \/ /\ Idle
     /\ ResolveCached(URI_custom, FALSE)
  \/ /\ Idle
     /\ ResolveBatch(<<URI_custom, URI_hr>>, FALSE)
  \/ \E i \in 1..Len(calls) :
       \E outcome \in { Outcome("timeout", <<>>),
                        Outcome("document", <<WellKnownFull(calls[i].uri)>>) } :
         FetchReturn(i, outcome)
  \/ BatchReturn
  \/ /\ Idle
     /\ \E query \in {Empty, [include_global |-> TRUE]} :
          \E order \in Orders(DOMAIN agentsFile) : DiscoverBegin(query, order, FALSE)
  \/ /\ discovery.state = "pending"
     /\ \E outcomes \in FetchOutcomes(discovery.searchQuery) : DiscoverFinish(outcomes)
  \/ \E agent \in {a \in RegisterAgents : Has(a, "endpoint") /\ ~Has(a, "capabilities")} :
       registerInternalAgent(URI_hr, agent, FALSE)
  \/ removePersistentAgent(URI_hr, FALSE)
  \/ clearPersistentAgents(FALSE)

SpecStore == Init /\ [][NextStore]_vars

\* the instants around the end of the 300 s TTL
TtlInstants == {300 * 1000, 300 * 1000 + 1}

\* resolve and resolveCached for an agent of the demo table, one of the
\* static internal table and one that only a runtime table or a well-known
\* document knows, calls of resolveCached overlapping, with the runtime
\* table replaced between calls and the clock moving
NextRecords ==
  \/ \E uri \in {URI_hello, URI_hr, URI_custom} : ResolveCached(uri, FALSE)
  \/ \E uri \in {URI_hello, URI_hr, URI_custom} : Resolve(uri, FALSE)
  \/ \E i \in 1..Len(calls) :
       \E outcome \in { Outcome("timeout", <<>>),
                        Outcome("document", <<WellKnownFull(calls[i].uri)>>) } :
         FetchReturn(i, outcome)
  \/ /\ Suspended = {}
     /\ \E config \in {c \in Configs : "internalRegistry" \in DOMAIN c} :
          configureInternalAgents(config)
  \/ \E t \in TtlInstants : Tick(t)

SpecRecords == Init /\ [][NextRecords]_vars

\* uris that resolve answers without a fetch, and one that no table holds
ChainURIs == {URI_empty, URI_invalid, URI_hello, URI_hr, URI_short}

\* resolve over every list of configured sources, the list being replaced
\* also while a call waits for a fetch.  Every request that was issued ends:
\* with a response whose body was read, with a failure, or by the abort the
\* call's timer raises.
NextChain ==
  \/ \E uri \in ChainURIs, broken \in BOOLEAN : Resolve(uri, broken)
  \/ Returning
  \/ \E config \in {c \in Configs : "internalWellKnownSources" \in DOMAIN c} :
       configureInternalAgents(config)

SpecChain == Init /\ [][NextChain]_vars /\ WF_vars(Returning)

\* validateAgentURI over its arguments; the function keeps no state, so one
\* call is followed
NextValidate ==
  /\ validation.state = "none"
  /\ \E uri \in ValidationInputs : ValidateAgentURI(uri)

SpecValidate == Init /\ [][NextValidate]_vars

(***************************************************************************)
(* Properties of resolve                                                   *)
(***************************************************************************)
\* the inputs that are no agent URI: the empty string and 'invalid-uri'
Malformed == {URI_empty, URI_invalid}

\* the result is an error with the code
HasCode(r, code) == isResolutionError(r) /\ "code" \in DOMAIN r /\ r.code = code

Returned400(c) == c.pc = "done" /\ HasCode(c.result, 400)

Returned404(c) == c.pc = "done" /\ HasCode(c.result, 404)

NoHit(c) == \A i \in 1..Len(c.trace) : ~c.trace[i].hit

\* the strategies a call consults when none of them answers
ExpectedOrder(c) ==
  <<"demo", "persistent-storage">>
    \o (IF c.flag THEN <<"internal-config">> ELSE <<>>)
    \o <<"internal-registry">>
    \o [i \in 1..Len(c.srcs) |-> "internal-well-known"]
    \o <<"well-known", "dns">>

\* C1: resolve of a uri that fails validation (the empty string included)
\* returns an error with code 400 in its first step, and no strategy is
\* consulted: no table lookup, no read of the store, no fetch.
C1_InvalidUriReturns400 ==
  \A k \in 1..Len(calls) :
    calls[k].uri \in Malformed =>
      /\ Returned400(calls[k])
      /\ calls[k].result.agent_uri = calls[k].uri
      /\ calls[k].trace = <<>>

C1_Witness ==
  \E k \in 1..Len(calls) :
    /\ calls[k].uri = URI_invalid
    /\ ~validateAgentURI(calls[k].uri)
    /\ Returned400(calls[k])
    /\ Has(agentsFile, URI_hr)

\* C2: a call for a valid uri consults the strategies in the order demo
\* table, store, static internal table, runtime table, the configured
\* sources in their order, public well-known, DNS; every strategy before the
\* last consulted one missed, the call returns a record exactly when the last
\* one answered, and a uri of the demo table is answered by the demo table
\* whatever the later tables hold.
C2_FixedOrderFirstHitWins ==
  \A k \in 1..Len(calls) :
    LET c    == calls[k]
        n    == Len(c.trace)
        base == IF c.flag THEN 4 ELSE 3
    IN  c.uri \notin Malformed =>
          /\ n >= 1
          /\ n <= Len(ExpectedOrder(c))
          /\ \A i \in 1..n : c.trace[i].s = ExpectedOrder(c)[i]
          /\ \A i \in 1..n : c.trace[i].s = "internal-well-known" =>
                               c.trace[i].source = c.srcs[i - base]
          /\ \A i \in 1..(n - 1) : ~c.trace[i].hit
          /\ c.pc # "done" => ~c.trace[n].hit
          /\ c.pc = "done" =>
               /\ isAgentRecord(c.result) <=> c.trace[n].hit
               /\ ~c.trace[n].hit => n = Len(ExpectedOrder(c))
               /\ Has(DEMO_REGISTRY, c.uri) =>
                    /\ n = 1
                    /\ isAgentRecord(c.result)
                    /\ c.result.resolution.resolver = "ansregistry.org"
                    /\ c.result.endpoint = DEMO_REGISTRY[c.uri].endpoint

\* a demo uri that the store and the runtime table hold as well
C2_Witness ==
  \E k \in 1..Len(calls) :
    /\ calls[k].uri = URI_hello
    /\ calls[k].pc = "done"
    /\ calls[k].stored = "active"
    /\ Has(internalRegistry, URI_hello)
    /\ calls[k].result.resolution.resolver = "ansregistry.org"

\* C3: a call for a valid uri that every strategy misses returns an error
\* with code 404 whose agent_uri is the uri asked for.
C3_AllMissReturns404 ==
  \A k \in 1..Len(calls) :
    LET c == calls[k]
    IN  (c.uri \notin Malformed /\ validateAgentURI(c.uri) /\ c.pc = "done" /\ NoHit(c)) =>
          /\ Returned404(c)
          /\ c.result.error = "Agent not found"
          /\ c.result.agent_uri = c.uri

\* every strategy was consulted, two configured sources among them
C3_Witness ==
  \E k \in 1..Len(calls) :
    /\ calls[k].uri = URI_nonexistent
    /\ Returned404(calls[k])
    /\ NoHit(calls[k])
    /\ Len(calls[k].trace) = 7

(***************************************************************************)
(* Properties of resolveBatch                                              *)
(***************************************************************************)
\* C7: a returned batch holds one result per uri, and the i-th result is the
\* result of the call for the i-th uri (a 400 for a malformed uri, otherwise
\* a record or a 404 for that uri), in whatever order the calls returned.
C7_BatchIsPositional ==
  batch.state = "returned" =>
    /\ ~batch.rejected
    /\ Len(batch.out) = Len(batch.uris)
    /\ Len(BatchItems) = Len(batch.uris)
    /\ \A i \in 1..Len(batch.uris) :
         /\ BatchItems[i].uri = batch.uris[i]
         /\ batch.out[i] = BatchItems[i].result
         /\ isAgentRecord(batch.out[i]) \/ isResolutionError(batch.out[i])
         /\ batch.out[i].agent_uri = batch.uris[i]
         /\ batch.uris[i] \in Malformed <=>
              HasCode(batch.out[i], 400)

\* a record and a 400, the call for the second uri having returned first
C7_Witness ==
  /\ batch.state = "returned"
  /\ Len(batch.uris) = 2
  /\ BatchItems[1].doneSeq > BatchItems[2].doneSeq
  /\ isAgentRecord(batch.out[1])
  /\ HasCode(batch.out[2], 400)

(***************************************************************************)
(* Properties of the sources of resolve                                    *)
(***************************************************************************)
\* C8: no call of resolve raises; a strategy whose source failed (the store
\* raised, the fetch timed out, failed, answered non-2xx or sent malformed
\* JSON) counts as a miss, and the call goes on to the next strategy.
C8_SourceFailureIsMiss ==
  \A k \in 1..Len(calls) :
    LET c == calls[k]
        n == Len(c.trace)
    IN  /\ ~IsThrown(c.result)
        /\ \A i \in 1..n :
             c.trace[i].failed =>
               /\ ~c.trace[i].hit
               /\ i = n => c.pc = "fetch"
               /\ i < n => c.trace[i + 1].s = ExpectedOrder(c)[i + 1]
        /\ c.pc = "done" => isAgentRecord(c.result) \/ isResolutionError(c.result)

\* the store raised and a fetch failed, and a later strategy answered
C8_Witness ==
  \E k \in 1..Len(calls) :
    LET c == calls[k]
    IN  /\ c.pc = "done"
        /\ isAgentRecord(c.result)
        /\ c.stored = "raises"
        /\ \E i, j \in 1..Len(c.trace) :
             /\ i < j
             /\ c.trace[i].s = "persistent-storage" /\ c.trace[i].failed
             /\ c.trace[j].s = "internal-well-known" /\ c.trace[j].failed

\* C9: the store answers exactly when the record it holds for the uri is
\* active, and then with that status; when the record is inactive or in
\* maintenance the store is a miss and the next strategy is consulted (the
\* static internal table, or the runtime table when that one is disabled).
C9_StoreAnswersOnlyActive ==
  \A k \in 1..Len(calls) :
    LET c == calls[k]
        n == Len(c.trace)
    IN  (n >= 2 /\ c.trace[2].s = "persistent-storage") =>
          /\ c.trace[2].hit <=> c.stored = "active"
          /\ c.trace[2].hit =>
               /\ c.result.status = "active"
               /\ c.result.resolution.resolver = "persistent-storage"
          /\ c.stored \in {"inactive", "maintenance"} =>
               /\ n >= 3
               /\ c.trace[3].s = IF c.flag THEN "internal-config" ELSE "internal-registry"

\* the store holds the uri in maintenance and the static internal table answers
C9_Witness ==
  \E k \in 1..Len(calls) :
    LET c == calls[k]
    IN  /\ c.uri = URI_hr
        /\ c.stored = "maintenance"
        /\ c.pc = "done"
        /\ Len(c.trace) = 3
        /\ c.result.resolution.resolver = "internal-config"

\* C10: a call made while useInternalAgents is false does not consult the
\* static internal table, so a uri of that table which nothing else answers
\* comes back as a 404; a call made while the flag is true consults the table
\* whenever the demo table and the store missed, and is answered by it.
C10_FlagGatesInternalTable ==
  \A k \in 1..Len(calls) :
    LET c == calls[k]
        n == Len(c.trace)
    IN  Has(INTERNAL_AGENTS, c.uri) =>
          /\ ~c.flag =>
               /\ \A i \in 1..n : c.trace[i].s # "internal-config"
               /\ (c.pc = "done" /\ NoHit(c)) => Returned404(c)
               /\ c.pc = "done" /\ isAgentRecord(c.result) =>
                    c.result.resolution.resolver # "internal-config"
          /\ (c.flag /\ c.stored # "active") =>
               /\ c.pc = "done"
               /\ n = 3
               /\ c.trace[3].s = "internal-config"
               /\ isAgentRecord(c.result)
               /\ c.result.resolution.resolver = "internal-config"
               /\ c.result.endpoint = INTERNAL_AGENTS[c.uri].endpoint

\* a call made with the flag false came back 404, and the flag is true again
C10_Witness ==
  /\ useInternalAgents
  /\ configOps = 2
  /\ \E k \in 1..Len(calls) :
       /\ calls[k].uri = URI_hr
       /\ ~calls[k].flag
       /\ Returned404(calls[k])

(***************************************************************************)
(* Properties of resolveCached and the resolution cache                    *)
(***************************************************************************)
\* the entry a call found is still served: the clock has not passed its expiry
FoundLive(c) == ~IsMiss(c.entry) /\ c.at <= c.entry.expires

FoundExpired(c) == ~IsMiss(c.entry) /\ c.at > c.entry.expires

\* the ttl, in seconds, a record is stored with
TtlOf(data) ==
  IF Has(data, "resolution") /\ data.resolution.ttl # 0 THEN data.resolution.ttl ELSE 300

\* C4: a call of resolveCached that finds the uri's entry within its TTL
\* returns at once, without a strategy being consulted, the entry's record
\* with cached = true and the endpoint of the call that stored it; a call
\* that finds the entry expired runs the chain and returns what the chain
\* gives, which if it is a record has cached = false.
C4_CachedWithinTtlFreshAfter ==
  \A k \in 1..Len(calls) :
    LET c == calls[k]
    IN  /\ FoundLive(c) =>
             /\ c.served
             /\ c.pc = "done"
             /\ c.trace = <<>>
             /\ c.result.resolution.cached
             /\ c.result.endpoint = c.entry.data.endpoint
        /\ (FoundExpired(c) /\ c.pc = "done") =>
             /\ ~c.served
             /\ c.trace # <<>>
             /\ isAgentRecord(c.result) => ~c.result.resolution.cached

\* C5: a call of resolveCached that returns the error its chain gave (a 400
\* or a 404) leaves that error in the cache under the uri, expiring 300 s
\* after it was stored.
C5_ErrorsAreCached ==
  \A k \in 1..Len(calls) :
    LET c == calls[k]
    IN  (c.api = "resolveCached" /\ c.pc = "done" /\ ~c.served
           /\ isResolutionError(c.result)) =>
          /\ Has(cache, c.uri)
          /\ cache[c.uri].data = c.result
          /\ cache[c.uri].expires = cache[c.uri].insertedAt + 300 * 1000

\* C6: every entry expires at the time it was stored plus its record's
\* resolution.ttl seconds (300 without one), whatever hits it has answered
\* since; a hit returns the record with cached = true and resolved_at the
\* time of the hit, and only while the clock has not passed that expiry.
C6_ExpiryFixedAtInsertion ==
  /\ \A u \in DOMAIN cache :
       cache[u].expires = cache[u].insertedAt + TtlOf(cache[u].data) * 1000
  /\ \A k \in 1..Len(calls) :
       LET c == calls[k]
       IN  c.served =>
             /\ ~IsMiss(c.entry)
             /\ c.at <= c.entry.insertedAt + TtlOf(c.entry.data) * 1000
             /\ c.result.resolution.cached
             /\ c.result.resolution.resolved_at = c.at
             /\ c.result.resolution.ttl = c.entry.data.resolution.ttl
             /\ c.result.endpoint = c.entry.data.endpoint

\* a step in which resolveCached is answered by the cache leaves the cache
\* as it was
HitLeavesCache ==
  [][(started' = started + 1 /\ calls'[Len(calls')].served) => cache' = cache]_vars

\* a hit later than the entry was stored, the entry still as it was stored
C6_Witness ==
  \E k \in 1..Len(calls) :
    LET c == calls[k]
    IN  /\ c.served
        /\ c.at > c.entry.insertedAt
        /\ c.result.resolution.resolved_at > c.entry.data.resolution.resolved_at
        /\ Has(cache, c.uri)
        /\ cache[c.uri] = c.entry

(***************************************************************************)
(* Properties of the well-known strategies and of the returned records     *)
(***************************************************************************)
\* the entries of a call's trace for the configured sources, in order
SourceEntries(c) == SelectSeq(c.trace, LAMBDA e : e.s = "internal-well-known")

\* C11: a call asks the configured sources one at a time in the order they
\* were configured in when it reached them: the j-th source asked is the
\* j-th configured one, the fetch pending is that of the next one, a source
\* answers exactly when its document lists the uri, and the call then
\* returns that source's record without asking a later source.
C11_SourcesInOrderFirstMatchWins ==
  \A k \in 1..Len(calls) :
    LET c     == calls[k]
        asked == SourceEntries(c)
        m     == Len(asked)
    IN  /\ m <= Len(c.srcs)
        /\ \A j \in 1..m :
             /\ asked[j].source = c.srcs[j]
             /\ asked[j].hit <=> asked[j].found
             /\ asked[j].hit => j = m
        /\ (c.pc = "fetch" /\ c.idx <= Len(c.srcs)) => c.idx = m + 1
        /\ (m >= 1 /\ asked[m].hit) =>
             /\ c.pc = "done"
             /\ c.trace[Len(c.trace)] = asked[m]
             /\ c.result.resolution.resolver = "internal-well-known"
             /\ c.result.resolution.source = c.srcs[m]

\* the second of two configured sources answered after the first one's
\* document did not list the uri
C11_Witness ==
  \E k \in 1..Len(calls) :
    LET c     == calls[k]
        asked == SourceEntries(c)
    IN  /\ c.srcs = <<Source1, Source2>>
        /\ Len(asked) = 2
        /\ ~asked[1].failed /\ ~asked[1].found
        /\ asked[2].hit
        /\ c.result.resolution.source = Source2

\* the resolver id each strategy stamps on the record it answers with
ResolverOf(strategy) ==
  CASE strategy = "demo"                -> "ansregistry.org"
    [] strategy = "persistent-storage"  -> "persistent-storage"
    [] strategy = "internal-config"     -> "internal-config"
    [] strategy = "internal-registry"   -> "internal-registry"
    [] strategy = "internal-well-known" -> "internal-well-known"
    [] strategy = "well-known"          -> "well-known"
    [] OTHER                            -> "none"

\* C12: every record a call of resolve returns has resolution info with a
\* ttl above 0, the resolver id of the strategy that answered the call, and
\* the time of the call's answer as resolved_at.
C12_ResolutionInfoComplete ==
  \A k \in 1..Len(calls) :
    LET c == calls[k]
        n == Len(c.trace)
    IN  (c.api = "resolve" /\ c.pc = "done" /\ isAgentRecord(c.result)) =>
          /\ Has(c.result, "resolution")
          /\ c.result.resolution.ttl > 0
          /\ c.result.resolution.resolver = ResolverOf(c.trace[n].s)
          /\ c.result.resolution.resolved_at = now

\* What does hold of every returned record: resolution info with a ttl
\* above 0 and the time of the answer, and the strategy's resolver id unless
\* the runtime table answered with a record that was installed with one.
ResolutionInfoPresent ==
  \A k \in 1..Len(calls) :
    LET c == calls[k]
        n == Len(c.trace)
    IN  (c.api = "resolve" /\ c.pc = "done" /\ isAgentRecord(c.result)) =>
          /\ Has(c.result, "resolution")
          /\ c.result.resolution.ttl > 0
          /\ c.result.resolution.resolved_at = now
          /\ c.trace[n].s # "internal-registry" =>
               c.result.resolution.resolver = ResolverOf(c.trace[n].s)

Discovered == discovery.state = "returned"

\* the records gathered for uri from sources of the type
GatheredFrom(uri, type) ==
  Filter(discovery.gathered,
         LAMBDA a : a.agent_uri = uri /\ a.discovery_source.type = type)

\* an agent of the result as it was gathered: without the health attached
\* later
AsGathered(agent) == [k \in DOMAIN agent \ {"health"} |-> agent[k]]

\* the g-th gathered record is the one that deduplication keeps for its
\* agent_uri: none of the same agent_uri has a lower rank, and none of the
\* same rank was gathered before it
Surviving(g) ==
  LET gathered == discovery.gathered
      Rank(i) == sourceTypePriority(gathered[i].discovery_source.type)
  IN  \A h \in 1..Len(gathered) :
        gathered[h].agent_uri = gathered[g].agent_uri
          => Rank(h) > Rank(g) \/ (Rank(h) = Rank(g) /\ h >= g)

AllFetchesFailed ==
  /\ Discovered
  /\ discovery.searchQuery.include_wellknown
  /\ \A i \in 1..Len(discovery.outcomes) : discovery.outcomes[i].kind # "document"

\* the agents of the store that pass the filters are in the result, as far
\* as the limit goes
LocalResultsReturned ==
  LET q == discovery.searchQuery
      agents == discovery.result.agents
  IN  \A g \in 1..Len(discovery.gathered) :
        LET a == discovery.gathered[g]
        IN  a.discovery_source.type = "local" /\ Passes(a, q)
              => \/ \E i \in 1..Len(agents) : AsGathered(agents[i]) = WithoutSource(a)
                 \/ (q.limit > 0 /\ Len(agents) = q.limit)

\* C15: when the well-known step is enabled and the remote requests fail
\* (timeout, network error, non-2xx or malformed body), the result still has
\* the agents of the local store, and its sources list has a well-known entry
\* with an error and zero agents.
C15_WellKnownFailureReported ==
  AllFetchesFailed =>
    /\ LocalResultsReturned
    /\ \E i \in 1..Len(discovery.result.sources) :
         LET s == discovery.result.sources[i]
         IN  s.type = "wellknown" /\ s.agents_found = 0 /\ Has(s, "error")

\* what holds of it: the local agents are returned, and the well-known entry
\* has zero agents and no error
WellKnownFailureIsSilent ==
  AllFetchesFailed =>
    /\ LocalResultsReturned
    /\ \E i \in 1..Len(discovery.result.sources) :
         discovery.result.sources[i].type = "wellknown"
    /\ \A i \in 1..Len(discovery.result.sources) :
         LET s == discovery.result.sources[i]
         IN  s.type = "wellknown" => s.agents_found = 0 /\ ~Has(s, "error")

\* the call read a store that raised
LocalFailed == discovery.broken /\ discovery.searchQuery.include_local

\* the entries of the sources list of the type
SourcesOf(type) == Filter(discovery.result.sources, LAMBDA s : s.type = type)

\* C16: when the lookup in the local store fails, discoverAgents does not
\* throw: it returns a result whose sources list has a local entry with an
\* error and zero agents, and the well-known and global lookups that the
\* query asks for have run all the same.
C16_LocalFailureIsRecorded ==
  /\ discovery.state # "thrown"
  /\ Discovered /\ LocalFailed =>
       /\ Len(SourcesOf("local")) = 1
       /\ SourcesOf("local")[1].agents_found = 0
       /\ Has(SourcesOf("local")[1], "error")
       /\ \A g \in 1..Len(discovery.gathered) :
            discovery.gathered[g].discovery_source.type # "local"
       /\ discovery.searchQuery.include_wellknown =>
            /\ Len(discovery.outcomes) = Len(extractDomainsFromQuery(discovery.searchQuery))
            /\ Len(SourcesOf("wellknown")) = 1
            /\ SourcesOf("wellknown")[1].agents_found = Len(discovery.gathered)
            /\ \A i \in 1..Len(discovery.outcomes) :
                 \A k \in 1..Len(discovery.outcomes[i].agents) :
                   \E g \in 1..Len(discovery.gathered) :
                     /\ discovery.gathered[g].agent_uri = discovery.outcomes[i].agents[k].agent_uri
                     /\ discovery.gathered[g].endpoint = discovery.outcomes[i].agents[k].endpoint
       /\ discovery.searchQuery.include_global => Len(SourcesOf("global")) = 1

\* the store raised, and the call returned agents of a well-known document
\* and the entry of the global registry
C16_Witness ==
  /\ Discovered
  /\ LocalFailed
  /\ discovery.searchQuery.include_wellknown
  /\ discovery.searchQuery.include_global
  /\ Has(SourcesOf("local")[1], "error")
  /\ Len(discovery.result.agents) > 0

\* C17: with requested capabilities C, discoverAgents returns only agents
\* whose capabilities contain every element of C, whatever the sources the
\* agents come from.
C17_CapabilitiesAllRequired ==
  Discovered =>
    \A i \in 1..Len(discovery.result.agents) :
      \A c \in 1..Len(discovery.searchQuery.capabilities) :
        Includes(discovery.result.agents[i].capabilities,
                 discovery.searchQuery.capabilities[c])

\* two capabilities were asked for; the result has an agent of the store and
\* an agent of a well-known document, and an agent with one of the two
\* capabilities only was gathered
C17_Witness ==
  /\ Discovered
  /\ Len(discovery.searchQuery.capabilities) = 2
  /\ \E i, j \in 1..Len(discovery.result.agents) :
       /\ discovery.result.agents[i].resolution.resolver = "local-storage"
       /\ discovery.result.agents[j].resolution.resolver = "well-known"
  /\ \E g \in 1..Len(discovery.gathered) :
       /\ Includes(discovery.gathered[g].capabilities, discovery.searchQuery.capabilities[1])
       /\ ~Includes(discovery.gathered[g].capabilities, discovery.searchQuery.capabilities[2])
       /\ Passes(discovery.gathered[g], [discovery.searchQuery EXCEPT !.capabilities = <<>>])

\* the text occurs in the string, whatever the case
OccursIn(text, string) == includes(toLowerCase(string), toLowerCase(text))

\* the search text occurs in agent_uri, in the description or in one of the
\* capabilities
FoundInAField(agent, search) ==
  \/ OccursIn(Spell[search], agent.agent_uri)
  \/ HasMetadata(agent, "description")
       /\ OccursIn(Spell[search], Spell[agent.metadata.description])
  \/ \E c \in 1..Len(agent.capabilities) :
       OccursIn(Spell[search], Spell[agent.capabilities[c]])

\* the predicates of the filter but the one of the search
PassesButSearch(agent, q) ==
  /\ \E i \in 1..Len(q.status) : q.status[i] = agent.status
  /\ HasMetadata(agent, "discovery_level")
       => \E i \in 1..Len(q.discovery_level) :
            q.discovery_level[i] = agent.metadata.discovery_level
  /\ \E i \in 1..Len(q.type) : q.type[i] = agent.type
  /\ {q.capabilities[i] : i \in 1..Len(q.capabilities)}
       \subseteq {agent.capabilities[i] : i \in 1..Len(agent.capabilities)}
  /\ q.organization # ""
       => HasMetadata(agent, "organization") /\ agent.metadata.organization = q.organization

\* the deduplicated agents that the filter kept
Kept(k) ==
  \E f \in 1..Len(discovery.filtered) : discovery.filtered[f] = discovery.deduplicated[k]

\* C18: the filter keeps a deduplicated agent if and only if its status is
\* asked for, its discovery_level is asked for or absent, its type is asked
\* for, it has every requested capability, its organization is the one asked
\* for when one is, and the search text, when there is one, occurs (whatever
\* the case) in agent_uri, in the description or in a capability.
C18_FilterKeepsIffPredicates ==
  Discovered =>
    \A k \in 1..Len(discovery.deduplicated) :
      LET agent == discovery.deduplicated[k]
          q     == discovery.searchQuery
      IN  Kept(k) <=> /\ PassesButSearch(agent, q)
                      /\ q.search # "" => FoundInAField(agent, q.search)

\* what holds of the filter: the search text is looked for in agent_uri, the
\* description and the capabilities joined with spaces
FilterSearchesJoinedText ==
  Discovered =>
    \A k \in 1..Len(discovery.deduplicated) :
      LET agent == discovery.deduplicated[k]
          q     == discovery.searchQuery
          text  == join(<<agent.agent_uri,
                          IF HasMetadata(agent, "description")
                            THEN Spell[agent.metadata.description] ELSE <<>>>>
                        \o [c \in 1..Len(agent.capabilities) |->
                              Spell[agent.capabilities[c]]], " ")
      IN  Kept(k) <=> /\ PassesButSearch(agent, q)
                      /\ q.search # "" => OccursIn(Spell[q.search], text)

\* the agents after the health filters, before the limit, as results
Untruncated == WithoutSources(discovery.passed)

\* C19: discoverAgents returns at most limit agents when the requested limit
\* is above 0, and every agent that came through the filters when the
\* requested limit is 0 or below.
C19_LimitBoundsOrDisables ==
  Discovered /\ Has(discovery.query, "limit") =>
    IF discovery.query.limit > 0
      THEN Len(discovery.result.agents) <= discovery.query.limit
      ELSE discovery.result.agents = Untruncated

\* what holds of the limit: a requested limit of 0 is replaced by the default
\* of 100 like an absent one; a limit below 0 disables the truncation
LimitZeroIsDefault ==
  Discovered =>
    LET requested == IF Has(discovery.query, "limit") THEN discovery.query.limit ELSE 0
        limit     == IF requested = 0 THEN 100 ELSE requested
    IN  IF limit > 0
          THEN discovery.result.agents = slice(Untruncated, limit)
          ELSE discovery.result.agents = Untruncated

\* what the health probe yields for the agent, nothing being cached
ProbeOf(agent) == checkAgentHealth(Miss, ProbeResponses(agent.endpoint))

\* C20: with the discovery health flag enabled, the health attached to each
\* agent that passed the filters is what the health probe yields for its
\* endpoint; an agent whose endpoint cannot be reached is unhealthy and is
\* removed when the health_status filter excludes unhealthy.
C20_HealthIsProbeResult ==
  Discovered /\ discovery.health_check_enabled =>
    /\ \A i \in 1..Len(discovery.result.agents) :
         LET agent == discovery.result.agents[i]
         IN  /\ Has(agent, "health")
             /\ agent.health.status = ProbeOf(agent).status
    /\ \A i \in 1..Len(discovery.result.agents) :
         /\ discovery.searchQuery.health_status # <<>>
         /\ ~Includes(discovery.searchQuery.health_status, "unhealthy")
         => discovery.result.agents[i].endpoint \notin DownEndpoints

\* what holds of the health pass: with the flag enabled every agent of the
\* result is healthy with score 95, whatever its endpoint
HealthIsConstant ==
  Discovered /\ discovery.health_check_enabled =>
    \A i \in 1..Len(discovery.result.agents) :
      /\ Has(discovery.result.agents[i], "health")
      /\ discovery.result.agents[i].health.status = "healthy"
      /\ discovery.result.agents[i].health.score = 95


\* the agents the final filters of the returned call were given: the filtered
\* agents, each with a health result when the health pass ran
Checked ==
  IF discovery.health_check_enabled /\ Len(discovery.filtered) > 0
    THEN performHealthChecks(discovery.filtered).agents
    ELSE discovery.filtered

\* the agent came through the health filters of the returned call
PassedHealth(agent) == \E j \in 1..Len(discovery.passed) : discovery.passed[j] = agent

\* C21: in the final filter an agent that has a health result is kept iff
\* its score is at least min_health_score and its health status is in
\* health_status or health_status is empty; an agent without a health result
\* is never removed by the health filters.
C21_HealthFilterKeepsIff ==
  Discovered =>
    \A i \in 1..Len(Checked) :
      LET agent == Checked[i]
          q     == discovery.searchQuery
      IN  IF Has(agent, "health")
            THEN PassedHealth(agent) <=>
                   /\ q.health_status = <<>>
                      \/ Includes(q.health_status, agent.health.status)
                   /\ agent.health.score >= q.min_health_score
            ELSE PassedHealth(agent)

\* a call whose health filters removed every checked agent
C21_Witness ==
  /\ Discovered
  /\ discovery.health_check_enabled
  /\ Checked # <<>>
  /\ discovery.passed = <<>>

\* C21 as the specification words it: an agent with a health result is kept
\* iff its status is in health_status and its score is at least
\* min_health_score
HealthFilterKeepsIffListed ==
  Discovered =>
    \A i \in 1..Len(Checked) :
      LET agent == Checked[i]
          q     == discovery.searchQuery
      IN  Has(agent, "health") =>
            ( PassedHealth(agent) <=>
                /\ Includes(q.health_status, agent.health.status)
                /\ agent.health.score >= q.min_health_score )


\* the returned call was made through getHealthyAgents
ByGetHealthyAgents ==
  /\ Discovered
  /\ \E options \in HealthyOptions : discovery.query = getHealthyAgents(options)

\* C22: getHealthyAgents returns only agents whose health status is healthy
\* with a score of at least 80, whatever the options of the caller and
\* whether the health pass is enabled or not.
C22_OnlyHealthyReturned ==
  ByGetHealthyAgents =>
    \A i \in 1..Len(discovery.result.agents) :
      LET agent == discovery.result.agents[i]
      IN  /\ Has(agent, "health")
          /\ agent.health.status = "healthy"
          /\ agent.health.score >= 80

\* what holds of getHealthyAgents: the options of the caller do not change
\* the health filters or include_local, and the agents of the result are
\* healthy with a score of at least 80 when the health pass is enabled; with
\* the pass disabled no agent of the result has a health result
HealthyOnlyWhenChecked ==
  ByGetHealthyAgents =>
    /\ discovery.searchQuery.health_status = <<"healthy">>
    /\ discovery.searchQuery.min_health_score = 80
    /\ discovery.searchQuery.include_local
    /\ \A i \in 1..Len(discovery.result.agents) :
         LET agent == discovery.result.agents[i]
         IN  IF discovery.health_check_enabled
               THEN /\ Has(agent, "health")
                    /\ agent.health.status = "healthy"
                    /\ agent.health.score >= 80
               ELSE ~Has(agent, "health")


\* the argument of the returned call has none of status, discovery_level,
\* include_local and limit
OmitsDefaulted ==
  /\ Discovered
  /\ ~Has(discovery.query, "status")
  /\ ~Has(discovery.query, "discovery_level")
  /\ ~Has(discovery.query, "include_local")
  /\ ~Has(discovery.query, "limit")

\* C23: a query that omits status, discovery_level, include_local and limit
\* is searched with status [active], discovery_level [public, internal,
\* private], include_local true and limit 100: only active agents are
\* returned, the local store is consulted and at most 100 agents are
\* returned.
C23_OmittedFieldsTakeDefaults ==
  OmitsDefaulted =>
    /\ discovery.searchQuery.status = <<"active">>
    /\ discovery.searchQuery.discovery_level = <<"public", "internal", "private">>
    /\ discovery.searchQuery.include_local
    /\ discovery.searchQuery.limit = 100
    /\ \A i \in 1..Len(discovery.result.agents) :
         discovery.result.agents[i].status = "active"
    /\ \E s \in 1..Len(discovery.result.sources) :
         discovery.result.sources[s].type = "local"
    /\ Len(discovery.result.agents) <= 100

\* a call without the four fields that gathered more than 100 active agents
\* and an inactive one, and returned 100
C23_Witness ==
  /\ OmitsDefaulted
  /\ \E i \in 1..Len(discovery.gathered) : discovery.gathered[i].status = "inactive"
  /\ Len(discovery.filtered) > 100
  /\ Len(discovery.result.agents) = 100


\* discoverAgents waits for the fetches of its well-known step
AwaitingFetches ==
  /\ discovery.state = "pending"
  /\ discovery.searchQuery.include_wellknown

\* the lookup of the source of the type has completed: its entry is in the
\* sources of the call
Completed(type) ==
  \E s \in 1..Len(discovery.sources) : discovery.sources[s].type = type

\* C24: discoverAgents issues the lookups of all enabled sources together: a
\* source that is slow does not delay the start of the others, so while the
\* fetches of the well-known step are awaited the lookup of an enabled global
\* registry has been started.
C24_SourcesStartTogether ==
  AwaitingFetches /\ discovery.searchQuery.include_global =>
    Includes(discovery.begun, "global")

\* what holds of the gather: the sources are looked up one after the other;
\* when the fetches of the well-known step are issued the local lookup has
\* completed, and the global registry is not asked before they have all ended
SourcesRunInSequence ==
  AwaitingFetches =>
    /\ discovery.searchQuery.include_local => Completed("local")
    /\ ~Includes(discovery.begun, "global")
    /\ ~Completed("wellknown")


\* the request ended in a response whose status is in the accepted set
Succeeds(answer, accepted) == answer.kind = "response" /\ answer.status \in accepted

\* the calls of checkAgentHealth that the cache did not answer
Probing == {p \in 1..Len(probes) : probes[p].pc # "thrown" /\ ~probes[p].hit}

\* the statuses the k-th request of the call accepts: those of the k-th
\* configured endpoint, and 200, 204 and 405 for the request that follows the
\* configured ones
Accepted(probe, k) ==
  IF k <= Len(probe.endpoints) THEN probe.endpoints[k].expected_status
  ELSE {200, 204, 405}

\* C25: checkAgentHealth requests the configured health endpoints in their
\* order, each only after every one before it has failed, and none after one
\* has answered with an accepted status; after all of them have failed it
\* sends one HEAD request to the agent endpoint, accepting 200, 204 and 405,
\* and when that fails too the result is unhealthy.
C25_EndpointsInOrderFirstSuccessStops ==
  \A p \in Probing :
    LET probe == probes[p]
        n     == Len(probe.requests)
        m     == Len(probe.endpoints)
    IN  /\ n <= m + 1
        /\ \A k \in 1..n :
             probe.requests[k] =
               IF k <= m THEN [ path |-> probe.endpoints[k].path,
                                method |-> probe.endpoints[k].method ]
               ELSE [path |-> "", method |-> "HEAD"]
        /\ \A k \in 1..(n - 1) : ~Succeeds(probe.responses[k], Accepted(probe, k))
        /\ probe.pc = "waiting" => Len(probe.responses) = n - 1
        /\ probe.pc = "done" =>
             /\ Len(probe.responses) = n
             /\ IF Succeeds(probe.responses[n], Accepted(probe, n))
                  THEN probe.health.details.endpoint_reachable
                  ELSE /\ n = m + 1
                       /\ probe.health.status = "unhealthy"
                       /\ probe.health.score = 0

\* a call that found the three default endpoints failing and the agent
\* endpoint answering 405
C25_Witness ==
  \E p \in Probing :
    /\ probes[p].pc = "done"
    /\ probes[p].endpoints = HEALTH_ENDPOINTS
    /\ Len(probes[p].requests) = 4
    /\ probes[p].responses[4] = Answer(405)
    /\ probes[p].health.status = "degraded"


\* the calls of checkAgentHealth that returned after a request that succeeded
Successful ==
  {p \in Probing : /\ probes[p].pc = "done"
                   /\ Succeeds(probes[p].responses[Len(probes[p].responses)],
                               Accepted(probes[p], Len(probes[p].responses)))}

\* the time the last request of the call took
WinningTime(probe) == probe.endTime - probe.requestStart

\* the requests of the call that failed
FailedAttempts(probe) == Len(probe.responses) - 1

\* C26: after a successful probe the score is 100, less 50 when the winning
\* response took more than 5000 ms or else 25 when it took more than 2000 ms,
\* less 10 for each failed attempt before it up to 40; the status is healthy
\* from 80 on, degraded from 50 on and unhealthy below.  At most 2000 ms
\* without a failure gives 100 and healthy, above 2000 ms up to 5000 ms
\* without a failure gives 75 and degraded, and every score lies in 0..100.
C26_ScoreAndStatus ==
  /\ \A p \in Successful :
       LET probe  == probes[p]
           time   == WinningTime(probe)
           failed == FailedAttempts(probe)
           score  == probe.health.score
       IN  /\ score = 100 - (IF time > 5000 THEN 50 ELSE IF time > 2000 THEN 25 ELSE 0)
                          - (IF 10 * failed < 40 THEN 10 * failed ELSE 40)
           /\ probe.health.status = "healthy" <=> score >= 80
           /\ probe.health.status = "degraded" <=> score >= 50 /\ score < 80
           /\ probe.health.status = "unhealthy" <=> score < 50
           /\ time <= 2000 /\ failed = 0
                => score = 100 /\ probe.health.status = "healthy"
           /\ time > 2000 /\ time <= 5000 /\ failed = 0
                => score = 75 /\ probe.health.status = "degraded"
  /\ \A p \in Probing :
       probes[p].pc = "done" => probes[p].health.score \in 0..100

\* a call whose sixth request was answered after more than 5000 ms, the five
\* before it having failed: the penalty for the failures is 40, not 50
C26_Witness ==
  \E p \in Successful :
    /\ WinningTime(probes[p]) > 5000
    /\ FailedAttempts(probes[p]) = 5
    /\ probes[p].health.score = 10
    /\ probes[p].health.status = "unhealthy"

\* a call whose first request was answered after exactly 2000 ms
AnsweredAtThreshold ==
  \E p \in Successful :
    /\ WinningTime(probes[p]) = 2000
    /\ FailedAttempts(probes[p]) = 0
    /\ probes[p].health.score = 100


\* the calls of checkAgentHealth that did not throw
Checking == {p \in 1..Len(probes) : probes[p].pc # "thrown"}

\* the health cache held an entry for the agent of the call, not yet expired
\* when the call was made
FoundFresh(probe) ==
  /\ ~IsMiss(probe.found)
  /\ probe.startTime <= probe.found.set_at + 60000

\* what the cached results of checkAgentHealth are: a call that finds an
\* entry of its agent at most 60 s old returns its health and sends no
\* request; any other call sends requests; an entry expires 60 s after it was
\* stored
HealthCachedForTtl ==
  /\ \A p \in Checking :
       IF FoundFresh(probes[p])
         THEN /\ probes[p].pc = "done"
              /\ probes[p].requests = <<>>
              /\ probes[p].health = probes[p].found.health
         ELSE probes[p].requests # <<>>
  /\ \A u \in DOMAIN healthCache :
       healthCache[u].expires = healthCache[u].set_at + 60000

\* a step that changes one of the two caches leaves the other as it is
CachesIndependent ==
  /\ cache' # cache => healthCache' = healthCache
  /\ healthCache' # healthCache => cache' = cache

\* C27: checkAgentHealth caches its result per agent_uri for 60 s: a call
\* for the same agent within that time returns the cached health without
\* sending a request, a call after it probes again, and no step changes the
\* entries or expiries of both this cache and the resolution cache.
C27_HealthCachedIndependently ==
  []HealthCachedForTtl /\ [][CachesIndependent]_vars

\* a call answered by the health cache at the very end of the entry's 60 s,
\* while the resolution cache holds an entry with another expiry
C27_Witness ==
  /\ \E p \in Checking :
       /\ probes[p].hit
       /\ probes[p].startTime = probes[p].found.expires
       /\ probes[p].startTime > probes[p].found.set_at
  /\ \E u \in DOMAIN cache : \A v \in DOMAIN healthCache : cache[u].expires # healthCache[v].expires

\* a call that found an expired entry of its agent and probed again
ProbedAfterExpiry ==
  \E p \in Checking :
    /\ ~IsMiss(probes[p].found)
    /\ probes[p].startTime > probes[p].found.expires
    /\ probes[p].requests # <<>>


\* the agents of the checkMultipleAgentsHealth call whose check has been
\* started, by their place in the input; the check of the i-th is
\* probes[healthBatch.base + i]
StartedChecks == 1..(Len(probes) - healthBatch.base)

CheckOf(i) == probes[healthBatch.base + i]

\* the agents being probed: their check waits for a response
BeingProbed == {i \in StartedChecks : CheckOf(i).pc = "waiting"}

\* the group of the i-th agent, the groups being of concurrent_checks agents
GroupOf(i) == (i - 1) \div healthConfig.concurrent_checks + 1

\* C28: checkMultipleAgentsHealth never has more than concurrent_checks
\* agents being probed at a time: the checks are started group by group of
\* that many consecutive agents, and no check of a group is started while a
\* check of an earlier group is unfinished.
C28_AtMostOneGroupProbed ==
  healthBatch.state # "none" =>
    /\ Cardinality(BeingProbed) <= healthConfig.concurrent_checks
    /\ \A i \in StartedChecks, j \in StartedChecks :
         GroupOf(i) < GroupOf(j) => i \notin BeingProbed
    /\ \A i \in 1..Len(healthBatch.agents), j \in StartedChecks :
         GroupOf(i) <= GroupOf(j) => i \in StartedChecks

\* with two checks at a time and three agents, the third agent is being
\* probed after the first two were probed and have finished
C28_Witness ==
  /\ healthBatch.state = "running"
  /\ healthConfig.concurrent_checks = 2
  /\ StartedChecks = 1..3
  /\ BeingProbed = {3}
  /\ CheckOf(1).requests # <<>>
  /\ CheckOf(2).requests # <<>>

\* a group of two being probed together while a third agent waits its turn
GroupProbedTogether ==
  /\ healthBatch.state = "running"
  /\ Len(healthBatch.agents) = 3
  /\ BeingProbed = {1, 2}

\* C29: checkMultipleAgentsHealth returns one record for each input agent, in
\* input order: the i-th is the i-th agent with the health its own check
\* produced, or with an unhealthy health of score 0 when its check threw, the
\* records of the other agents being what they are without it.
C29_OneRecordPerAgentInOrder ==
  healthBatch.state = "returned" =>
    /\ Len(healthBatch.results) = Len(healthBatch.agents)
    /\ \A i \in 1..Len(healthBatch.agents) :
         LET agent  == healthBatch.agents[i]
             record == healthBatch.results[i]
         IN  IF CheckOf(i).pc = "thrown"
               THEN /\ DOMAIN record = {"health"}
                    /\ record.health.status = "unhealthy"
                    /\ record.health.score = 0
               ELSE /\ DOMAIN record = DOMAIN agent \cup {"health"}
                    /\ \A k \in DOMAIN agent : record[k] = agent[k]
                    /\ record.health = CheckOf(i).health

\* three agents checked two at a time, the check of the second throwing: the
\* first is returned unhealthy from its probe, the second unhealthy from the
\* error and the third healthy
C29_Witness ==
  /\ healthBatch.state = "returned"
  /\ healthConfig.concurrent_checks = 2
  /\ healthBatch.agents = <<AgentHello, Null, AgentHr>>
  /\ healthBatch.results[1].health.error_count = 3
  /\ healthBatch.results[2].health.error_count = 1
  /\ healthBatch.results[3].health.status = "healthy"


\* a step of resolve, resolveBatch, resolveCached or discoverAgents: a call
\* of one of them starts, resumes or returns
LookupStep ==
  \/ calls' # calls
  \/ batch' # batch
  \/ started' # started
  \/ discovery' # discovery

\* a call of registerInternalAgent, removePersistentAgent or
\* clearPersistentAgents
ManagementStep == configOps' = configOps + 1

\* C30: no step of resolve, resolveBatch, resolveCached or discoverAgents
\* adds, changes or removes a record of the persistent store; the store
\* changes only in calls of registerInternalAgent, removePersistentAgent and
\* clearPersistentAgents.
C30_LookupsNeverWriteStore ==
  [][ /\ LookupStep => agentsFile' = agentsFile
      /\ agentsFile' # agentsFile => ManagementStep ]_vars

\* the store holds a record that resolve was answered from and discoverAgents
\* listed
C30_Witness ==
  /\ Has(agentsFile, URI_hr)
  /\ \E k \in 1..Len(calls) :
       /\ calls[k].pc = "done"
       /\ calls[k].uri = URI_hr
       /\ isAgentRecord(calls[k].result)
       /\ calls[k].result.resolution.resolver = "persistent-storage"
  /\ discovery.state = "returned"
  /\ discovery.result.metadata.local_agents = 1

(***************************************************************************)
(* Properties of the tables, the store and the returned records            *)
(***************************************************************************)
\* a call of resolve or resolveCached starts, resumes or returns
CallStep == calls' # calls

\* the entry under key after the step was stored by a call of resolveCached
\* that returned in the step
StoredInStep(key) ==
  \E k \in 1..Len(calls') :
    LET c == calls'[k]
    IN  /\ c.api = "resolveCached" /\ c.uri = key /\ c.pc = "done" /\ ~c.served
        /\ cache'[key].data = c.result
        /\ cache'[key].insertedAt = now

\* C31: no step of a call of resolve or resolveCached changes the runtime
\* table (the demo table and the static internal table are never assigned
\* to), and every entry the resolution cache holds after the step is the
\* entry it held before or a new one stored by a call that returned in the
\* step; when the cache answers, its entry stays as it was, with the cached
\* and resolved_at it was stored with, while the record returned has
\* cached = true and the time of the hit.
C31_LookupsLeaveStoredRecords ==
  [][CallStep =>
       /\ internalRegistry' = internalRegistry
       /\ \A key \in DOMAIN cache' :
            \/ Has(cache, key) /\ cache'[key] = cache[key]
            \/ StoredInStep(key)
       /\ \A k \in 1..Len(calls') :
            LET c == calls'[k]
            IN  c.served =>
                  /\ Has(cache', c.uri)
                  /\ cache'[c.uri] = c.entry
                  /\ c.result.resolution.cached
                  /\ c.result.resolution.resolved_at = now]_vars

\* the cache answered for a record the runtime table had given, later than
\* it stored it: the entry still says cached = false and the time it was
\* resolved at, and the table's record still has no resolution of its own
C31_Witness ==
  \E k \in 1..Len(calls) :
    LET c == calls[k]
    IN  /\ c.served
        /\ c.uri = URI_custom
        /\ c.result.resolution.resolver = "internal-registry"
        /\ c.result.resolution.cached
        /\ c.result.resolution.resolved_at > cache[c.uri].data.resolution.resolved_at
        /\ ~cache[c.uri].data.resolution.cached
        /\ Has(internalRegistry, URI_custom)
        /\ internalRegistry[URI_custom] = ConfiguredPlain

\* the runtime table holds for uri a record that registerInternalAgent made
Registered(uri) ==
  /\ Has(internalRegistry, uri)
  /\ Has(internalRegistry[uri], "resolution")
  /\ internalRegistry[uri].resolution.resolver = "internal-registry"

\* a call of resolve starts (one call is followed at a time)
ResolveStarts == Suspended = {} /\ calls' # calls

\* the call of resolve that started in the step
StartedCall == calls'[Len(calls')]

\* C32: a call of resolve for a valid uri outside the demo table, made while
\* the runtime table holds the record registerInternalAgent stored for it,
\* returns a record with resolution.resolver = 'internal-registry' and the
\* endpoint, status and capabilities of the registration (active and empty
\* when omitted), whether the registration gave a type or not.
C32_RegisteredAnsweredByRuntimeTable ==
  [][ResolveStarts =>
       LET c == StartedCall
       IN  (validateAgentURI(c.uri) /\ ~Has(DEMO_REGISTRY, c.uri) /\ Registered(c.uri)) =>
             /\ c.pc = "done"
             /\ isAgentRecord(c.result)
             /\ c.result.resolution.resolver = "internal-registry"
             /\ c.result.endpoint = internalRegistry[c.uri].endpoint
             /\ c.result.status = internalRegistry[c.uri].status
             /\ c.result.capabilities = internalRegistry[c.uri].capabilities]_vars

\* what resolve does return for such a uri: the record of the first of the
\* store (when it holds the uri with status active and does not raise), the
\* static internal table (when it is enabled and holds the uri) and the
\* runtime table, and only in the last case the fields of the registration
\* with resolver 'internal-registry'
RegisteredAnsweredInChainOrder ==
  [][ResolveStarts =>
       LET c == StartedCall
       IN  (validateAgentURI(c.uri) /\ ~Has(DEMO_REGISTRY, c.uri) /\ Registered(c.uri)) =>
             /\ c.pc = "done"
             /\ isAgentRecord(c.result)
             /\ c.result.resolution.resolver =
                  IF c.stored = "active" THEN "persistent-storage"
                  ELSE IF c.flag /\ Has(INTERNAL_AGENTS, c.uri) THEN "internal-config"
                  ELSE "internal-registry"
             /\ c.stored = "active" =>
                  /\ c.result.endpoint = agentsFile[c.uri].endpoint
                  /\ c.result.type = "persistent"
             /\ c.result.resolution.resolver = "internal-registry" =>
                  /\ c.result.endpoint = internalRegistry[c.uri].endpoint
                  /\ c.result.status = internalRegistry[c.uri].status
                  /\ c.result.capabilities = internalRegistry[c.uri].capabilities]_vars

\* a registration without a type is answered by the store, the static
\* internal table being disabled
RegisteredWithoutTypeAnsweredByStore ==
  \E k \in 1..Len(calls) :
    LET c == calls[k]
    IN  /\ c.pc = "done"
        /\ c.api = "resolve"
        /\ ~c.flag
        /\ Registered(c.uri)
        /\ ~Has(internalRegistry[c.uri], "type")
        /\ isAgentRecord(c.result)
        /\ c.result.resolution.resolver = "persistent-storage"
        /\ c.result.endpoint = internalRegistry[c.uri].endpoint

\* a later registration with a type leaves the store's record of the earlier
\* one, and resolve returns the endpoint of the earlier registration
EarlierRegistrationAnswers ==
  \E k \in 1..Len(calls) :
    LET c == calls[k]
    IN  /\ c.pc = "done"
        /\ c.api = "resolve"
        /\ ~Has(DEMO_REGISTRY, c.uri)
        /\ Registered(c.uri)
        /\ Has(internalRegistry[c.uri], "type")
        /\ isAgentRecord(c.result)
        /\ c.result.resolution.resolver = "persistent-storage"
        /\ c.result.endpoint # internalRegistry[c.uri].endpoint

\* the strategy that answered a returned call
AnsweredBy(c) == c.trace[Len(c.trace)].s

\* C33: every record a call of resolve returned has the agent_uri the call
\* was made for, whichever strategy answered.
C33_ReturnedRecordNamesUri ==
  \A k \in 1..Len(calls) :
    LET c == calls[k]
    IN  (c.pc = "done" /\ isAgentRecord(c.result)) =>
          /\ Has(c.result, "agent_uri")
          /\ c.result.agent_uri = c.uri

\* every record that another strategy than the runtime table answered with
\* has the agent_uri asked for, the store's records among them
NamesUriUnlessRuntimeTable ==
  \A k \in 1..Len(calls) :
    LET c == calls[k]
    IN  (c.pc = "done" /\ isAgentRecord(c.result) /\ AnsweredBy(c) # "internal-registry") =>
          /\ Has(c.result, "agent_uri")
          /\ c.result.agent_uri = c.uri

\* the store answered, with the agent_uri asked for
StoreRecordNamesUri ==
  \E k \in 1..Len(calls) :
    LET c == calls[k]
    IN  /\ c.pc = "done"
        /\ isAgentRecord(c.result)
        /\ AnsweredBy(c) = "persistent-storage"
        /\ c.result.agent_uri = c.uri

(***************************************************************************)
(* Termination of resolve                                                  *)
(***************************************************************************)
\* the requests a call has issued so far
Attempts(c) ==
  Cardinality({i \in 1..Len(c.trace) : c.trace[i].s \in {"internal-well-known", "well-known"}})
  + (IF c.pc = "fetch" THEN 1 ELSE 0)

\* a call has issued at most one request per source configured when it
\* started and one for the public document, and what it returned is a
\* record, a 400 or a 404
ChainBounded ==
  \A k \in 1..Len(calls) :
    LET c == calls[k]
    IN  /\ Attempts(c) <= Len(c.srcs) + 1
        /\ c.pc = "done" =>
             \/ isAgentRecord(c.result)
             \/ c.result = InvalidURI(c.uri)
             \/ c.result = NotFound(c.uri)

\* C34: every call of resolve returns, with a record, a 400 or a 404, when
\* every request it issues ends (completes, fails or is aborted by the
\* timer), and it issues at most n + 1 requests, n being the number of
\* internal well-known sources configured when it started.
C34_ResolveTerminates ==
  /\ []ChainBounded
  /\ (Suspended # {}) ~> (Suspended = {})

\* a call that asked both configured sources and the public document, all of
\* which failed or missed, and returned 404
C34_Witness ==
  \E k \in 1..Len(calls) :
    LET c == calls[k]
    IN  /\ c.pc = "done"
        /\ Len(c.srcs) = 2
        /\ Attempts(c) = 3
        /\ c.result = NotFound(c.uri)

(***************************************************************************)
(* Properties of validateAgentURI                                          *)
(***************************************************************************)
\* a label of the grammar: not empty, alphanumerics and hyphens, no hyphen
\* at either end
GrammarLabel(part) ==
  /\ Len(part) >= 1
  /\ \A i \in 1..Len(part) : part[i] \in AlphaNum \cup {"-"}
  /\ part[1] # "-"
  /\ part[Len(part)] # "-"

\* the labels after the scheme
LabelsOf(uri) == split(SubSeq(uri, Len(AgentScheme) + 1, Len(uri)), ".")

\* agent://label(.label)+ in at most 253 characters
MatchesGrammar(uri) ==
  /\ Len(uri) <= MAX_URI_LENGTH
  /\ startsWith(uri, AgentScheme)
  /\ Len(LabelsOf(uri)) >= 2
  /\ \A i \in 1..Len(LabelsOf(uri)) : GrammarLabel(LabelsOf(uri)[i])

\* C35: validateAgentURI(u) is true exactly when u is agent:// followed by
\* two or more dot-separated labels, each not empty and made of
\* alphanumerics and hyphens that are not at its ends, in at most 253
\* characters; the last label is held to no other rule.
C35_ValidIffGrammar ==
  validation.state = "returned" =>
    (validation.valid <=> MatchesGrammar(validation.uri))

\* what validateAgentURI accepts: the uris of the grammar whose last label
\* is two or more letters
ValidIffGrammarAndLettersLast ==
  validation.state = "returned" =>
    ( validation.valid <=>
        /\ MatchesGrammar(validation.uri)
        /\ PatternTld(LabelsOf(validation.uri)[Len(LabelsOf(validation.uri))]) )

\* a uri of the grammar whose last label has a digit is rejected
DigitInLastLabelRejected ==
  /\ validation.state = "returned"
  /\ validation.uri = AgentScheme \o <<"a">> \o Dot \o <<"A","9">>
  /\ ~validation.valid

\* a uri of 253 characters is accepted
LongestAccepted ==
  /\ validation.state = "returned"
  /\ Len(validation.uri) = MAX_URI_LENGTH
  /\ validation.valid

(***************************************************************************)
(* Properties of overlapping health checks                                 *)
(***************************************************************************)
\* the call of checkAgentHealth sent requests: it neither threw nor was
\* answered by the cache
SentRequests(probe) == probe.pc # "thrown" /\ ~probe.hit

\* C36: of two calls of checkAgentHealth for the same agent_uri that both
\* sent requests, the later one started after the earlier one had returned
\* and the entry it cached had expired.
C36_OneProbePerAgentAndWindow ==
  \A p, q \in 1..Len(probes) :
    ( /\ p < q
      /\ SentRequests(probes[p])
      /\ SentRequests(probes[q])
      /\ probes[p].agent.agent_uri = probes[q].agent.agent_uri ) =>
      /\ probes[p].pc = "done"
      /\ probes[q].startTime > probes[p].endTime + healthConfig.cache_duration

\* checkMultipleAgentsHealth was given the same agent twice in one group, and
\* both calls of checkAgentHealth are waiting for the response to a request
SameAgentProbedTwiceInGroup ==
  /\ healthBatch.state = "running"
  /\ healthBatch.agents = <<AgentHello, AgentHello>>
  /\ Len(probes) = 2
  /\ probes[1].pc = "waiting"
  /\ probes[2].pc = "waiting"
  /\ probes[1].requests = probes[2].requests

\* given the same agent in two groups, the call for the second is answered
\* by the entry the call for the first cached
SameAgentInLaterGroupIsHit ==
  \A p, q \in 1..Len(probes) :
    ( /\ healthBatch.state # "none"
      /\ healthConfig.concurrent_checks = 1
      /\ p < q
      /\ probes[p].pc # "thrown"
      /\ probes[q].pc # "thrown"
      /\ probes[p].agent.agent_uri = probes[q].agent.agent_uri ) =>
      probes[q].hit

(***************************************************************************)
(* Properties of checkMultipleAgentsHealth under every configuration       *)
(***************************************************************************)
\* C37: a call of checkMultipleAgentsHealth is never in a loop that does not
\* end, and when it has returned it has one record for each input agent,
\* whatever concurrent_checks was configured to.
C37_BatchReturnsUnderEveryConfig ==
  /\ healthBatch.state # "looping"
  /\ healthBatch.state = "returned" =>
       Len(healthBatch.results) = Len(healthBatch.agents)

\* the call is in the loop only with agents to check and a concurrent_checks
\* of 0 or less, and with those it always is; a call that returned has one
\* record for each input agent
BatchLoopsOnlyWithoutProgress ==
  /\ healthBatch.state = "looping" <=>
       /\ healthBatch.state # "none"
       /\ healthBatch.agents # <<>>
       /\ healthBatch.size <= 0
  /\ healthBatch.state = "returned" =>
       Len(healthBatch.results) = Len(healthBatch.agents)

\* with no agent to check the call returns also with concurrent_checks = 0
EmptyBatchReturnsWithZero ==
  /\ healthBatch.state = "returned"
  /\ healthBatch.agents = <<>>
  /\ healthBatch.size = 0

\* three agents checked one at a time have all been returned
BatchOfThreeReturnedOneByOne ==
  /\ healthBatch.state = "returned"
  /\ healthBatch.size = 1
  /\ Len(healthBatch.results) = 3

(***************************************************************************)
(* Properties of the order of deduplication, filters and limit             *)
(***************************************************************************)
\* the agent_uris of the gathered records
GatheredUris == {discovery.gathered[g].agent_uri : g \in 1..Len(discovery.gathered)}

\* uri was gathered from the store with a status outside the statuses asked
\* for and from a well-known document with a status inside them
LocalOutsideWellKnownInside(uri) ==
  LET local     == GatheredFrom(uri, "local")
      wellKnown == GatheredFrom(uri, "wellknown")
      status    == discovery.searchQuery.status
  IN  /\ local # <<>>
      /\ ~Includes(status, local[1].status)
      /\ \E w \in 1..Len(wellKnown) : Includes(status, wellKnown[w].status)

\* C38: deduplication comes before the filters: an agent_uri found in the
\* local store with a status outside query.status and in a well-known
\* document with a status inside it is not in the discovery result.
C38_FilteredLocalRecordHidesWellKnown ==
  Discovered =>
    \A uri \in GatheredUris :
      LocalOutsideWellKnownInside(uri)
        => \A i \in 1..Len(discovery.result.agents) :
             discovery.result.agents[i].agent_uri # uri

\* the store has agent://hello.dev.pbolduc as inactive, a document has it
\* with a record that every filter of the query lets through, other agents
\* are returned, it is not
C38_Witness ==
  /\ Discovered
  /\ LocalOutsideWellKnownInside(URI_hello)
  /\ GatheredFrom(URI_hello, "local")[1].status = "inactive"
  /\ Passes(GatheredFrom(URI_hello, "wellknown")[1], discovery.searchQuery)
  /\ ~discovery.health_check_enabled
  /\ discovery.searchQuery.limit > Len(discovery.gathered)
  /\ discovery.result.agents # <<>>
  /\ \A i \in 1..Len(discovery.result.agents) :
       discovery.result.agents[i].agent_uri # URI_hello


\* the place among the gathered records of the i-th agent that passed the
\* filters
Origin(i) ==
  CHOOSE g \in 1..Len(discovery.gathered) :
    /\ discovery.gathered[g] = AsGathered(discovery.passed[i])
    /\ Surviving(g)

\* the source type of the i-th agent that passed the filters
SourceType(i) == discovery.passed[i].discovery_source.type

\* C39: the result lists every agent of the local store before every agent
\* of a well-known document, the agents of one source in the order they were
\* gathered in; the result is the front of the agents that passed the
\* filters, so the limit never cuts a local agent while a well-known one
\* stays.
C39_SourcePriorityOrder ==
  Discovered =>
    LET agents == discovery.result.agents
        passed == discovery.passed
    IN  /\ \A i, j \in 1..Len(agents) :
             /\ agents[i].resolution.resolver = "well-known"
             /\ agents[j].resolution.resolver = "local-storage"
             => j < i
        /\ Len(agents) <= Len(passed)
        /\ agents = WithoutSources(SubSeq(passed, 1, Len(agents)))
        /\ \A i, j \in 1..Len(passed) :
             i < j /\ SourceType(i) = SourceType(j) => Origin(i) < Origin(j)
        /\ \A k \in (Len(agents) + 1)..Len(passed) :
             \A i \in 1..Len(agents) :
               ~(SourceType(k) = "local" /\ SourceType(i) = "wellknown")

\* a call with limit 1 that found agents in the store and in the documents:
\* the one it returns is from the store, the well-known ones are cut
C39_Witness ==
  /\ Discovered
  /\ discovery.searchQuery.limit = 1
  /\ Len(discovery.result.agents) = 1
  /\ discovery.result.agents[1].resolution.resolver = "local-storage"
  /\ Len(discovery.passed) > 2
  /\ SourceType(1) = "local"
  /\ SourceType(2) = "local"
  /\ SourceType(Len(discovery.passed)) = "wellknown"


(***************************************************************************)
(* Properties of the counts of a discovery result                          *)
(***************************************************************************)
\* the sum of agents_found over the entries of a sources list
RECURSIVE SumFound(_)
SumFound(sources) ==
  IF sources = <<>> THEN 0
  ELSE Head(sources).agents_found + SumFound(Tail(sources))

\* C40: in every discovery result total_found is the number of candidates
\* gathered before deduplication and the sum of agents_found over the
\* sources list; metadata.filtered_out is total_found minus the number of
\* agents returned, and is never negative.
C40_CountsAddUp ==
  Discovered =>
    LET result == discovery.result
    IN  /\ result.total_found = Len(discovery.gathered)
        /\ result.total_found = SumFound(result.sources)
        /\ result.metadata.filtered_out = result.total_found - Len(result.agents)
        /\ result.metadata.filtered_out >= 0

\* a result gathered from the store and from the documents whose
\* filtered_out counts a duplicate removed by deduplication and agents cut
\* by the limit
C40_Witness ==
  /\ Discovered
  /\ Len(discovery.result.sources) = 2
  /\ discovery.result.sources[1].agents_found > 0
  /\ discovery.result.sources[2].agents_found > 0
  /\ Len(discovery.deduplicated) < Len(discovery.gathered)
  /\ Len(discovery.result.agents) < Len(discovery.passed)
  /\ discovery.result.total_found > 3
  /\ discovery.result.metadata.filtered_out = discovery.result.total_found - 1
====
